---- MODULE Spec2Model ----
(***************************************************************************)
(* madronalib serialosc support: the discovery service                     *)
(* (SerialOscService), the device connection protocol (MonomeDevice,       *)
(* MonomeGrid, MonomeArc) and the LED buffers (GridLedBuffer,              *)
(* ArcRingBuffer).                                                         *)
(*                                                                         *)
(* Three specifications share the variables:                               *)
(*   SpecService  the daemon protocol and the registry                     *)
(*   SpecDevice   one device driven through connect/disconnect/set...      *)
(*   SpecBuffer   one grid (buffer + flush) and one arc (ring buffers)     *)
(***************************************************************************)
EXTENDS Integers, Sequences, FiniteSets, TLC

(***************************************************************************)
(* Program constants                                                       *)
(***************************************************************************)
kSerialOscPort == 12002
kDefaultMonomePrefix == "/monome"
kServiceBasePort == 13000
kFirstDevicePort == 13001
kScanWindow == 100
kMaxWidth == 16
kMaxHeight == 16
kQuadrantSize == 8
kMaxLevel == 15
kLedCount == 64
kMaxEncoders == 4
kDefaultGridWidth == 16
kDefaultGridHeight == 8

(***************************************************************************)
(* Bounds of the model                                                     *)
(***************************************************************************)
\* the environment keeps at most MaxSkip ports busy in front of a free one
MaxSkip == 1
\* device/add messages are handled while nextDevicePort_ is below
\* kFirstDevicePort + MaxPortAdvance
MaxPortAdvance == 2

NoPath == ""
NoHandle == 0

\* device identities, in the order std::map keeps its keys
IdOrder == <<"m1", "m2">>
Ids == {IdOrder[i] : i \in 1..Len(IdOrder)}
IdRank(k) == CHOOSE i \in 1..Len(IdOrder) : IdOrder[i] = k
Hosts == {"127.0.0.1"}
ListenerPaths == {"app"}
DevicePorts == {15001}

(***************************************************************************)
(* Text: a type string is a sequence of characters                         *)
(***************************************************************************)
TypeGrid128 == <<"m","o","n","o","m","e"," ","1","2","8">>
TypeArc4 == <<"m","o","n","o","m","e"," ","a","r","c"," ","4">>
TypeArc2 == <<"m","o","n","o","m","e"," ","a","r","c"," ","2">>
TypeArcBare == <<"m","o","n","o","m","e"," ","a","r","c">>
TypeUnknown == <<"u","n","k","n","o","w","n"," ","d","e","v","i","c","e">>

TypeStrings == {TypeGrid128, TypeArc4, TypeUnknown}

StrArc == <<"a","r","c">>
StrMonome == <<"m","o","n","o","m","e">>

IsAt(s, pat, i) ==
  /\ i + Len(pat) - 1 <= Len(s)
  /\ \A j \in 1..Len(pat) : s[i + j - 1] = pat[j]

\* strstr: position of the first occurrence of pat in s, 0 when there is none
strstr(s, pat) ==
  IF \E i \in 1..Len(s) : IsAt(s, pat, i)
  THEN CHOOSE i \in 1..Len(s) :
         IsAt(s, pat, i) /\ \A k \in 1..(i - 1) : ~IsAt(s, pat, k)
  ELSE 0

IsDigit(c) == c \in {"0","1","2","3","4","5","6","7","8","9"}

DigitVal(c) ==
  CASE c = "0" -> 0 [] c = "1" -> 1 [] c = "2" -> 2 [] c = "3" -> 3
    [] c = "4" -> 4 [] c = "5" -> 5 [] c = "6" -> 6 [] c = "7" -> 7
    [] c = "8" -> 8 [] c = "9" -> 9

RECURSIVE SkipSpace(_, _)
SkipSpace(s, i) ==
  IF i <= Len(s) /\ s[i] = " " THEN SkipSpace(s, i + 1) ELSE i

RECURSIVE ScanDigits(_, _, _)
ScanDigits(s, i, acc) ==
  IF i <= Len(s) /\ IsDigit(s[i])
  THEN ScanDigits(s, i + 1, acc * 10 + DigitVal(s[i]))
  ELSE acc

\* sscanf(arcStr, "arc %d", &count): arcStr starts at position p of s.
\* Returns [n |-> number of conversions, count |-> the value converted].
sscanfArc(s, p) ==
  LET q == SkipSpace(s, p + 3)
      neg == q <= Len(s) /\ s[q] = "-"
      d == IF q <= Len(s) /\ s[q] \in {"-", "+"} THEN q + 1 ELSE q
  IN IF d <= Len(s) /\ IsDigit(s[d])
     THEN [n |-> 1,
           count |-> IF neg THEN 0 - ScanDigits(s, d, 0) ELSE ScanDigits(s, d, 0)]
     ELSE [n |-> 0, count |-> 0]

(***************************************************************************)
(* MonomeDeviceInfo                                                        *)
(***************************************************************************)
MonomeDeviceInfo(id, type, port) ==
  [id |-> id, type |-> type, port |-> port, width |-> 0, height |-> 0,
   encoderCount |-> 0, deviceType |-> "Unknown"]

\* a parseType that looks for the grid marker first
parseTypeGridFirst(info) ==
  IF strstr(info.type, StrMonome) # 0
  THEN [info EXCEPT !.deviceType = "Grid"]
  ELSE IF strstr(info.type, StrArc) # 0
       THEN LET r == sscanfArc(info.type, strstr(info.type, StrArc))
            IN [info EXCEPT !.deviceType = "Arc",
                            !.encoderCount = IF r.n = 1 THEN r.count ELSE 4]
       ELSE info

parseType(info) ==
  IF strstr(info.type, StrArc) # 0
  THEN LET r == sscanfArc(info.type, strstr(info.type, StrArc))
       IN [info EXCEPT !.deviceType = "Arc",
                       !.encoderCount = IF r.n = 1 THEN r.count ELSE 4]
  ELSE IF strstr(info.type, StrMonome) # 0
       THEN [info EXCEPT !.deviceType = "Grid"]
       ELSE info

isGrid(info) == info.deviceType = "Grid"
isArc(info) == info.deviceType = "Arc"

(***************************************************************************)
(* Events: what an operation did, in the order it did it                   *)
(***************************************************************************)
Ev(kind, h, addr, args) == [ev |-> kind, h |-> h, addr |-> addr, args |-> args]

RECURSIVE SelectEv(_, _)
SelectEv(evs, kind) ==
  IF evs = <<>> THEN <<>>
  ELSE IF Head(evs).ev = kind
       THEN <<Head(evs)>> \o SelectEv(Tail(evs), kind)
       ELSE SelectEv(Tail(evs), kind)

\* index of the first event of the kind, 0 when there is none
FirstEv(evs, kind) ==
  IF \E i \in 1..Len(evs) : evs[i].ev = kind
  THEN CHOOSE i \in 1..Len(evs) :
         evs[i].ev = kind /\ \A k \in 1..(i - 1) : evs[k].ev # kind
  ELSE 0

CountEv(evs, kind) == Len(SelectEv(evs, kind))

\* a sendTo that hands the datagram over twice
sendToTwice(h, addr, args) == <<Ev("send", h, addr, args), Ev("send", h, addr, args)>>

\* OSCMessageBuilder::sendTo: one datagram handed to the sender of object h
\* (h = NoHandle: the service's sender to the daemon)
sendTo(h, addr, args) == <<Ev("send", h, addr, args)>>

\* C++ integer division and remainder truncate toward zero (b > 0)
CDiv(a, b) == IF a >= 0 THEN a \div b ELSE 0 - ((0 - a) \div b)
CMod(a, b) == a - b * CDiv(a, b)

(***************************************************************************)
(* Levels: std::array<uint8_t, N> kept as the map of its non-zero slots    *)
(***************************************************************************)
NoLevels == [i \in {} |-> 0]
Level(lv, i) == IF i \in DOMAIN lv THEN lv[i] ELSE 0
\* the array with value v stored in every slot of idxs
StoreAll(lv, idxs, v) ==
  IF v = 0 THEN [i \in DOMAIN lv \ idxs |-> lv[i]]
  ELSE [i \in DOMAIN lv \cup idxs |-> IF i \in idxs THEN v ELSE lv[i]]

\* a clamp with the upper limit only
clampLevelUpperOnly(level) == IF level > kMaxLevel THEN kMaxLevel ELSE level

\* std::clamp(level, 0, kMaxLevel)
clampLevel(level) ==
  IF level < 0 THEN 0 ELSE IF level > kMaxLevel THEN kMaxLevel ELSE level

\* uint8_t arithmetic: m | (1 << i), truncated to 8 bits
Pow2(i) == 2 ^ i
TestBit(m, i) == (m \div Pow2(i)) % 2 = 1
OrBit8(m, i) == IF TestBit(m, i) THEN m ELSE (m + Pow2(i)) % 256

(***************************************************************************)
(* GridLedBuffer                                                           *)
(***************************************************************************)
GridLedBuffer(width, height) ==
  [width_ |-> width, height_ |-> height, levels_ |-> NoLevels, dirtyMask_ |-> 0]

quadrantIndex(qx, qy) == qy * 2 + qx

\* markDirty with the quadrant index computed as qx * 2 + qy
markDirtyTransposed(b, x, y) ==
  LET qx == CDiv(x, kQuadrantSize)
      qy == CDiv(y, kQuadrantSize)
  IN [b EXCEPT !.dirtyMask_ = OrBit8(@, quadrantIndex(qy, qx))]

markDirty(b, x, y) ==
  LET qx == CDiv(x, kQuadrantSize)
      qy == CDiv(y, kQuadrantSize)
  IN [b EXCEPT !.dirtyMask_ = OrBit8(@, quadrantIndex(qx, qy))]

GridIdx(x, y) == y * kMaxWidth + x

\* setLevel that stores and marks without comparing with the level held
Grid_setLevelAlwaysMarks(b, x, y, level) ==
  IF x < 0 \/ x >= b.width_ \/ y < 0 \/ y >= b.height_ THEN b
  ELSE markDirty([b EXCEPT !.levels_ = StoreAll(@, {GridIdx(x, y)}, clampLevel(level))],
                 x, y)

Grid_setLevel(b, x, y, level) ==
  IF x < 0 \/ x >= b.width_ \/ y < 0 \/ y >= b.height_ THEN b
  ELSE LET idx == GridIdx(x, y)
           clampedLevel == clampLevel(level)
       IN IF Level(b.levels_, idx) # clampedLevel
          THEN markDirty([b EXCEPT !.levels_ = StoreAll(@, {idx}, clampedLevel)], x, y)
          ELSE b

Grid_getLevel(b, x, y) ==
  IF x < 0 \/ x >= b.width_ \/ y < 0 \/ y >= b.height_ THEN 0
  ELSE Level(b.levels_, GridIdx(x, y))

RECURSIVE markDirtyEach(_, _)
markDirtyEach(b, cells) ==
  IF cells = {} THEN b
  ELSE LET c == CHOOSE p \in cells : TRUE
       IN markDirtyEach(markDirty(b, c[1], c[2]), cells \ {c})

\* markDirty for every cell of the set; markDirty(x, y) depends on the
\* quadrant of (x, y) only, so one cell per quadrant stands for the others
markDirtyAll(b, cells) ==
  markDirtyEach(b, {<<CDiv(p[1], kQuadrantSize) * kQuadrantSize,
                      CDiv(p[2], kQuadrantSize) * kQuadrantSize>> : p \in cells})

\* the rows-then-columns loop of fill and fillRect over the cells it visits:
\* a visited cell is written and marked when its slot does not hold the
\* clamped level at the time of the visit, that is, when it did not hold it
\* before the loop and no cell visited earlier has the same slot (two cells
\* share a slot only when the buffer is wider than kMaxWidth)
Before(p, q) == p[2] < q[2] \/ (p[2] = q[2] /\ p[1] < q[1])

WrittenCells(b, cells, clampedLevel) ==
  {p \in cells :
     /\ Level(b.levels_, GridIdx(p[1], p[2])) # clampedLevel
     /\ \/ b.width_ <= kMaxWidth
        \/ ~\E q \in cells : Before(q, p) /\ GridIdx(q[1], q[2]) = GridIdx(p[1], p[2])}

FillLoop(b, cells, clampedLevel) ==
  LET written == WrittenCells(b, cells, clampedLevel)
  IN markDirtyAll(
       [b EXCEPT !.levels_ =
          StoreAll(@, {GridIdx(p[1], p[2]) : p \in written}, clampedLevel)],
       written)

Grid_fill(b, level) ==
  FillLoop(b, (0..(b.width_ - 1)) \X (0..(b.height_ - 1)), clampLevel(level))

Min(a, c) == IF a < c THEN a ELSE c
Max(a, c) == IF a > c THEN a ELSE c

Grid_fillRect(b, x0, y0, w, h, level) ==
  FillLoop(b,
           (Max(x0, 0)..(Min(x0 + w, b.width_) - 1))
             \X (Max(y0, 0)..(Min(y0 + h, b.height_) - 1)),
           clampLevel(level))

Grid_set(b, x, y, on) == Grid_setLevel(b, x, y, IF on THEN kMaxLevel ELSE 0)
Grid_get(b, x, y) == Grid_getLevel(b, x, y) > 0
Grid_toggle(b, x, y) == Grid_set(b, x, y, ~Grid_get(b, x, y))
Grid_clear(b) == Grid_fill(b, 0)

Grid_isDirty(b) == b.dirtyMask_ # 0
Grid_clearDirty(b) == [b EXCEPT !.dirtyMask_ = 0]
isQuadrantDirty(b, qx, qy) == TestBit(b.dirtyMask_, quadrantIndex(qx, qy))

RECURSIVE QuadScan(_, _, _, _, _)
\* the qy-then-qx loop of getDirtyQuadrants from (qx, qy) on
QuadScan(b, qx, qy, numQuadsX, numQuadsY) ==
  IF qy >= numQuadsY THEN <<>>
  ELSE IF qx >= numQuadsX THEN QuadScan(b, 0, qy + 1, numQuadsX, numQuadsY)
  ELSE (IF isQuadrantDirty(b, qx, qy) THEN <<(<<qx, qy>>)>> ELSE <<>>)
       \o QuadScan(b, qx + 1, qy, numQuadsX, numQuadsY)

getDirtyQuadrants(b) ==
  QuadScan(b, 0, 0, (b.width_ + kQuadrantSize - 1) \div kQuadrantSize,
           (b.height_ + kQuadrantSize - 1) \div kQuadrantSize)

\* the 64 levels of a quadrant taken column by column
getQuadrantLevelsColumnMajor(b, qx, qy) ==
  [k \in 1..(kQuadrantSize * kQuadrantSize) |->
     LET col == (k - 1) \div kQuadrantSize
         row == (k - 1) % kQuadrantSize
         x == qx * kQuadrantSize + col
         y == qy * kQuadrantSize + row
     IN IF x < b.width_ /\ y < b.height_ THEN Level(b.levels_, GridIdx(x, y)) ELSE 0]

\* the 64 levels of a quadrant, row-major (a sequence, entry row*8+col+1)
getQuadrantLevels(b, qx, qy) ==
  [k \in 1..(kQuadrantSize * kQuadrantSize) |->
     LET row == (k - 1) \div kQuadrantSize
         col == (k - 1) % kQuadrantSize
         x == qx * kQuadrantSize + col
         y == qy * kQuadrantSize + row
     IN IF x < b.width_ /\ y < b.height_ THEN Level(b.levels_, GridIdx(x, y)) ELSE 0]

RECURSIVE RowBits(_, _, _, _)
\* rowBits |= (1 << col) for the columns col..7 of a row
RowBits(b, qx, y, col) ==
  IF col >= kQuadrantSize THEN 0
  ELSE LET x == qx * kQuadrantSize + col
       IN (IF x < b.width_ /\ y < b.height_ /\ Level(b.levels_, GridIdx(x, y)) > 0
           THEN Pow2(col) ELSE 0)
          + RowBits(b, qx, y, col + 1)

getQuadrantBitmask(b, qx, qy) ==
  [r \in 1..kQuadrantSize |-> RowBits(b, qx, qy * kQuadrantSize + (r - 1), 0)]

(***************************************************************************)
(* ArcRingBuffer                                                           *)
(***************************************************************************)
ArcRingBuffer == [levels_ |-> NoLevels, dirty_ |-> FALSE]

\* a setLevel that wraps an index outside the ring instead of ignoring it
Ring_setLevelWraps(b, led, level) ==
  [b EXCEPT !.levels_ = StoreAll(@, {led % kLedCount}, clampLevel(level)),
            !.dirty_ = TRUE]

Ring_setLevel(b, led, level) ==
  IF led < 0 \/ led >= kLedCount THEN b
  ELSE LET clampedLevel == clampLevel(level)
       IN IF Level(b.levels_, led) # clampedLevel
          THEN [b EXCEPT !.levels_ = StoreAll(@, {led}, clampedLevel), !.dirty_ = TRUE]
          ELSE b

Ring_getLevel(b, led) ==
  IF led < 0 \/ led >= kLedCount THEN 0 ELSE Level(b.levels_, led)

\* a loop that applies the body of setLevel to every slot of leds
RingLoop(b, leds, clampedLevel) ==
  LET written == {i \in leds : Level(b.levels_, i) # clampedLevel}
  IN IF written = {} THEN b
     ELSE [b EXCEPT !.levels_ = StoreAll(@, written, clampedLevel), !.dirty_ = TRUE]

Ring_fill(b, level) == RingLoop(b, 0..(kLedCount - 1), clampLevel(level))

\* a fillRange that fills nothing when start > end
fillRangeNoWrap(b, start, end, level) ==
  LET s == CMod(CMod(start, kLedCount) + kLedCount, kLedCount)
      e == CMod(CMod(end, kLedCount) + kLedCount, kLedCount)
  IN RingLoop(b, s..e, clampLevel(level))

fillRange(b, start, end, level) ==
  LET s == CMod(CMod(start, kLedCount) + kLedCount, kLedCount)
      e == CMod(CMod(end, kLedCount) + kLedCount, kLedCount)
  IN IF s <= e THEN RingLoop(b, s..e, clampLevel(level))
     ELSE RingLoop(RingLoop(b, s..(kLedCount - 1), clampLevel(level)),
                   0..e, clampLevel(level))

Ring_isDirty(b) == b.dirty_
Ring_clearDirty(b) == [b EXCEPT !.dirty_ = FALSE]
Ring_clear(b) == Ring_fill(b, 0)

\* a float position is held as a number of steps of 1 / PosUnit
PosUnit == kLedCount + kLedCount
\* normalizedPosition - std::floor(normalizedPosition)
PosFrac(pos) == pos - PosUnit * (pos \div PosUnit)
\* static_cast<int>(normalizedPosition * kLedCount) % kLedCount
PosLed(pos) == CMod(CDiv(PosFrac(pos) * kLedCount, PosUnit), kLedCount)

\* the falloff loop of setPosition, from neighbour i on
RECURSIVE positionFalloff(_, _, _, _, _)
positionFalloff(b, centerLed, brightness, falloff, i) ==
  IF i > falloff THEN b
  ELSE LET dimLevel == CDiv(brightness * (falloff - i + 1), falloff + 2)
           prevLed == CMod(centerLed - i + kLedCount, kLedCount)
           nextLed == CMod(centerLed + i, kLedCount)
           b2 == Ring_setLevel(Ring_setLevel(b, prevLed, dimLevel), nextLed, dimLevel)
       IN IF b2 = b THEN positionFalloff(b, centerLed, brightness, falloff, i + 1)
          ELSE positionFalloff(b2, centerLed, brightness, falloff, i + 1)

setPosition(b, normalizedPosition, brightness, falloff) ==
  LET centerLed == PosLed(normalizedPosition)
  IN positionFalloff(Ring_setLevel(Ring_clear(b), centerLed, brightness),
                     centerLed, brightness, falloff, 1)

setRange(b, startNorm, endNorm, level) ==
  fillRange(Ring_clear(b), PosLed(startNorm), PosLed(endNorm), level)
getAllLevels(b) == [k \in 1..kLedCount |-> Level(b.levels_, k - 1)]

(***************************************************************************)
(* MonomeDevice                                                            *)
(***************************************************************************)
MonomeDevice(info) ==
  [info |-> info, senderOpen |-> FALSE, receiverOpen |-> FALSE,
   prefix_ |-> kDefaultMonomePrefix, rotation_ |-> 0, connected_ |-> FALSE,
   host_ |-> "", localPort_ |-> 0, listenerActorPath_ |-> NoPath,
   queue |-> <<>>]

\* every operation on a device yields the device after it, its return value
\* and the events it produced
Res(d, ret, evs) == [d |-> d, ret |-> ret, evs |-> evs]

\* the objects the service creates: the base part and the part of the class
MonomeGrid(info) ==
  MonomeDevice(info)
    @@ [class |-> "MonomeGrid",
        ledBuffer_ |->
          GridLedBuffer(IF info.width > 0 THEN info.width ELSE kDefaultGridWidth,
                        IF info.height > 0 THEN info.height ELSE kDefaultGridHeight)]

MonomeArc(info) ==
  MonomeDevice(info)
    @@ [class |-> "MonomeArc",
        ringBuffers_ |-> [r \in 0..(kMaxEncoders - 1) |-> ArcRingBuffer]]

setPrefix(d, h, prefix) ==
  Res([d EXCEPT !.prefix_ = prefix], TRUE,
      IF d.senderOpen THEN sendTo(h, "/sys/prefix", <<prefix>>) ELSE <<>>)

setRotation(d, h, rotation) ==
  LET r == CMod(CDiv(rotation, 90), 4) * 90
  IN Res([d EXCEPT !.rotation_ = r], TRUE,
         IF d.senderOpen THEN sendTo(h, "/sys/rotation", <<r>>) ELSE <<>>)

\* a setListenerActor that forgets the path
Device_setListenerActorForgets(d, actorPath) == d

Device_setListenerActor(d, actorPath) == [d EXCEPT !.listenerActorPath_ = actorPath]

queryInfo(d, h) ==
  Res(d, TRUE,
      IF d.senderOpen THEN sendTo(h, "/sys/info", <<d.host_, d.localPort_>>) ELSE <<>>)

\* connect with the first two commands of the handshake exchanged
connectPortFirst(d, h, host, localPort, sOk, rOk) ==
  IF d.connected_ THEN Res(d, TRUE, <<>>)
  ELSE
    LET d1 == [d EXCEPT !.host_ = host, !.localPort_ = localPort]
    IN IF ~sOk THEN Res(d1, FALSE, <<>>)
       ELSE
         LET d2 == [d1 EXCEPT !.senderOpen = TRUE]
             e2 == <<Ev("openSender", h, "", <<host, d.info.port>>)>>
         IN IF ~rOk
            THEN Res([d2 EXCEPT !.senderOpen = FALSE], FALSE,
                     e2 \o <<Ev("closeSender", h, "", <<>>)>>)
            ELSE
              LET d3 == [d2 EXCEPT !.receiverOpen = TRUE]
                  e3 == e2 \o <<Ev("openReceiver", h, "", <<localPort>>)>>
                        \o sendTo(h, "/sys/port", <<localPort>>)
                        \o sendTo(h, "/sys/host", <<host>>)
                  p == setPrefix(d3, h, d3.prefix_)
                  q == queryInfo(p.d, h)
              IN Res([q.d EXCEPT !.connected_ = TRUE], TRUE,
                     e3 \o p.evs \o q.evs
                        \o <<Ev("connected", h, "", <<>>),
                             Ev("actorStart", h, "", <<>>)>>)

\* connect(host, localPort); sOk and rOk say whether the operating system
\* lets the send and the receive socket open
connect(d, h, host, localPort, sOk, rOk) ==
  IF d.connected_ THEN Res(d, TRUE, <<>>)
  ELSE
    LET d1 == [d EXCEPT !.host_ = host, !.localPort_ = localPort]
    IN IF ~sOk THEN Res(d1, FALSE, <<>>)
       ELSE
         LET d2 == [d1 EXCEPT !.senderOpen = TRUE]
             e2 == <<Ev("openSender", h, "", <<host, d.info.port>>)>>
         IN IF ~rOk
            THEN Res([d2 EXCEPT !.senderOpen = FALSE], FALSE,
                     e2 \o <<Ev("closeSender", h, "", <<>>)>>)
            ELSE
              LET d3 == [d2 EXCEPT !.receiverOpen = TRUE]
                  e3 == e2 \o <<Ev("openReceiver", h, "", <<localPort>>)>>
                        \o sendTo(h, "/sys/host", <<host>>)
                        \o sendTo(h, "/sys/port", <<localPort>>)
                  p == setPrefix(d3, h, d3.prefix_)
                  q == queryInfo(p.d, h)
              IN Res([q.d EXCEPT !.connected_ = TRUE], TRUE,
                     e3 \o p.evs \o q.evs
                        \o <<Ev("connected", h, "", <<>>),
                             Ev("actorStart", h, "", <<>>)>>)

disconnect(d, h) ==
  IF ~d.connected_ THEN Res(d, TRUE, <<>>)
  ELSE Res([d EXCEPT !.receiverOpen = FALSE, !.senderOpen = FALSE,
                     !.connected_ = FALSE], TRUE,
           <<Ev("closeReceiver", h, "", <<>>), Ev("closeSender", h, "", <<>>)>>)

\* MonomeDevice::handleSysMessage; path is the address (path[1] = "sys"),
\* args the arguments
Device_handleSysMessage(d, path, args) ==
  IF Len(path) < 2 THEN d
  ELSE
    LET prop == path[2]
    IN IF prop = "id" /\ Len(args) >= 1 THEN [d EXCEPT !.info.id = args[1]]
       ELSE IF prop = "size" /\ Len(args) >= 2
            THEN [d EXCEPT !.info.width = args[1], !.info.height = args[2]]
       ELSE IF prop = "prefix" /\ Len(args) >= 1 THEN [d EXCEPT !.prefix_ = args[1]]
       ELSE IF prop = "rotation" /\ Len(args) >= 1
            THEN [d EXCEPT !.rotation_ = args[1]]
       ELSE d

\* MonomeGrid::handleSysMessage
Grid_handleSysMessage(d, path, args) ==
  LET d1 == Device_handleSysMessage(d, path, args)
  IN IF Len(path) >= 2 /\ path[2] = "size" /\ Len(args) >= 2
     THEN IF args[1] > 0 /\ args[2] > 0
          THEN [d1 EXCEPT !.ledBuffer_ = GridLedBuffer(args[1], args[2])]
          ELSE d1
     ELSE d1

\* the virtual call
handleSysMessage(d, path, args) ==
  IF d.class = "MonomeGrid" THEN Grid_handleSysMessage(d, path, args)
  ELSE Device_handleSysMessage(d, path, args)

\* prefixedAddress(suffix)
AddrPrefix(d) == d.prefix_

\* MonomeGrid::ledAll
ledAll(d, h, state) ==
  sendTo(h, "/grid/led/all", <<AddrPrefix(d), IF state THEN 1 ELSE 0>>)

\* MonomeGrid::ledLevelMap and MonomeGrid::ledMap
ledLevelMap(d, h, xOffset, yOffset, levels) ==
  sendTo(h, "/grid/led/level/map", <<AddrPrefix(d), xOffset, yOffset, levels>>)

ledMap(d, h, xOffset, yOffset, rows) ==
  sendTo(h, "/grid/led/map", <<AddrPrefix(d), xOffset, yOffset, rows>>)

RECURSIVE MapLoop(_, _, _, _)
\* the loop over the dirty quadrants; binary chooses ledMap
MapLoop(d, h, quads, binary) ==
  IF quads = <<>> THEN <<>>
  ELSE LET qx == Head(quads)[1]
           qy == Head(quads)[2]
       IN (IF binary
           THEN ledMap(d, h, qx * 8, qy * 8, getQuadrantBitmask(d.ledBuffer_, qx, qy))
           ELSE ledLevelMap(d, h, qx * 8, qy * 8, getQuadrantLevels(d.ledBuffer_, qx, qy)))
          \o MapLoop(d, h, Tail(quads), binary)

\* flushLedBufferLevels without the call of clearDirty
flushLedBufferLevelsKeepsDirty(d, h) ==
  IF ~Grid_isDirty(d.ledBuffer_) THEN Res(d, TRUE, <<>>)
  ELSE Res(d, TRUE, MapLoop(d, h, getDirtyQuadrants(d.ledBuffer_), FALSE))

flushLedBufferLevels(d, h) ==
  IF ~Grid_isDirty(d.ledBuffer_) THEN Res(d, TRUE, <<>>)
  ELSE Res([d EXCEPT !.ledBuffer_ = Grid_clearDirty(@)], TRUE,
           MapLoop(d, h, getDirtyQuadrants(d.ledBuffer_), FALSE))

flushLedBufferBinary(d, h) ==
  IF ~Grid_isDirty(d.ledBuffer_) THEN Res(d, TRUE, <<>>)
  ELSE Res([d EXCEPT !.ledBuffer_ = Grid_clearDirty(@)], TRUE,
           MapLoop(d, h, getDirtyQuadrants(d.ledBuffer_), TRUE))

flushLedBuffer(d, h) == flushLedBufferLevels(d, h)

\* MonomeArc
getEncoderCount(d) == IF d.info.encoderCount > 0 THEN d.info.encoderCount ELSE 4

\* the ring getRingBuffer(ring) refers to
ringSlot(ring) == Max(0, Min(ring, kMaxEncoders - 1))

ringMap(d, h, ring, levels) ==
  sendTo(h, "/ring/map", <<AddrPrefix(d), ring, levels>>)

\* flushRingBuffer without the call of clearDirty
flushRingBufferKeepsDirty(d, h, ring) ==
  IF ring < 0 \/ ring >= kMaxEncoders THEN Res(d, TRUE, <<>>)
  ELSE IF ~Ring_isDirty(d.ringBuffers_[ring]) THEN Res(d, TRUE, <<>>)
  ELSE Res(d, TRUE, ringMap(d, h, ring, getAllLevels(d.ringBuffers_[ring])))

flushRingBuffer(d, h, ring) ==
  IF ring < 0 \/ ring >= kMaxEncoders THEN Res(d, TRUE, <<>>)
  ELSE IF ~Ring_isDirty(d.ringBuffers_[ring]) THEN Res(d, TRUE, <<>>)
  ELSE Res([d EXCEPT !.ringBuffers_[ring] = Ring_clearDirty(@)], TRUE,
           ringMap(d, h, ring, getAllLevels(d.ringBuffers_[ring])))

RECURSIVE flushRingLoop(_, _, _, _)
flushRingLoop(d, h, i, count) ==
  IF i >= count THEN Res(d, TRUE, <<>>)
  ELSE LET r == flushRingBuffer(d, h, i)
           rest == flushRingLoop(r.d, h, i + 1, count)
       IN Res(rest.d, TRUE, r.evs \o rest.evs)

flushRingBuffers(d, h) == flushRingLoop(d, h, 0, getEncoderCount(d))

(***************************************************************************)
(* Device input: MonomeDevice::handleOSCMessage, onMessage and the         *)
(* handleDeviceInput of the two classes                                    *)
(***************************************************************************)
\* ml::Value.  A float is held as its number of halves, so that 1.5 is 3.
IntValue(i) == [type |-> "kInt", v |-> <<i>>]
FloatValue(halves) == [type |-> "kFloat", v |-> <<halves>>]
TextValue == [type |-> "kText", v |-> <<>>]
NoValue == [type |-> "kUndefined", v |-> <<>>]
FloatArrayValue(floats) == [type |-> "kFloatArray", v |-> floats]

\* static_cast<float>(int) and static_cast<int>(float), on halves
IntToFloat(i) == i + i
FloatToInt(f) == CDiv(f, IntToFloat(1))

Message(address, value) == [address |-> address, value |-> value]

\* the prefix without its leading '/', as a path symbol
SlashNames == {<<kDefaultMonomePrefix, "monome">>, <<"/box", "box">>}
prefixWithoutSlash(prefix) ==
  IF \E n \in SlashNames : n[1] = prefix
  THEN (CHOOSE n \in SlashNames : n[1] = prefix)[2]
  ELSE prefix

strippedAddress(d, address) ==
  IF address # <<>> /\ Head(address) = prefixWithoutSlash(d.prefix_)
  THEN Tail(address) ELSE address

RECURSIVE packFloats(_)
\* the loop that packs the numeric arguments and skips the others
packFloats(args) ==
  IF args = <<>> THEN <<>>
  ELSE (IF Head(args).type = "kFloat" THEN Head(args).v
        ELSE IF Head(args).type = "kInt" THEN <<IntToFloat(Head(args).v[1])>>
        ELSE <<>>)
       \o packFloats(Tail(args))

packValue(args) ==
  IF Len(args) = 1 THEN args[1]
  ELSE IF Len(args) > 1 THEN FloatArrayValue(packFloats(args))
  ELSE NoValue

\* Actor::enqueueMessage: the message joins the end of the device's queue
enqueueMessage(d, msg) == [d EXCEPT !.queue = Append(@, msg)]

\* handleOSCMessage, the branch for device input; wire (history) keeps the
\* arguments as they were received
handleOSCMessage(d, address, args) ==
  enqueueMessage(d, Message(strippedAddress(d, address), packValue(args))
                      @@ [wire |-> args])

\* forwardInputEvent: one message to the listener, if there is one
forwardInputEvent(d, h, eventPath, data) ==
  IF d.listenerActorPath_ # NoPath
  THEN <<Ev("forward", h, d.listenerActorPath_, <<eventPath, FloatArrayValue(data)>>)>>
  ELSE <<>>

\* the int parameters of a handler, converted back to floats
Decoded(arr, n) == [i \in 1..n |-> IntToFloat(FloatToInt(arr[i]))]

handleGridKey(d, h, arr) ==
  forwardInputEvent(d, h, <<"grid", d.info.id, "key">>, Decoded(arr, 3))
handleTilt(d, h, arr) ==
  forwardInputEvent(d, h, <<"grid", d.info.id, "tilt">>, Decoded(arr, 4))
handleEncoderDelta(d, h, arr) ==
  forwardInputEvent(d, h, <<"arc", d.info.id, "delta">>, Decoded(arr, 2))
handleEncoderKey(d, h, arr) ==
  forwardInputEvent(d, h, <<"arc", d.info.id, "key">>, Decoded(arr, 2))

Grid_handleDeviceInput(d, h, address, val) ==
  IF address = <<>> THEN <<>>
  ELSE IF Len(address) >= 2
  THEN IF /\ address[1] = "grid" /\ address[2] = "key"
          /\ val.type = "kFloatArray" /\ Len(val.v) >= 3
       THEN handleGridKey(d, h, val.v) ELSE <<>>
  ELSE IF address[1] = "tilt" /\ val.type = "kFloatArray" /\ Len(val.v) >= 4
       THEN handleTilt(d, h, val.v) ELSE <<>>

Arc_handleDeviceInput(d, h, address, val) ==
  IF address = <<>> THEN <<>>
  ELSE IF Len(address) >= 2 /\ address[1] = "enc"
  THEN IF address[2] = "delta"
       THEN IF val.type = "kFloatArray" /\ Len(val.v) >= 2
            THEN handleEncoderDelta(d, h, val.v) ELSE <<>>
       ELSE IF address[2] = "key" /\ val.type = "kFloatArray" /\ Len(val.v) >= 2
            THEN handleEncoderKey(d, h, val.v) ELSE <<>>
  ELSE <<>>

\* onMessage with the forwarding left out
onMessageMute(d, h, m) == Res(d, TRUE, <<>>)

\* MonomeGrid::onMessage / MonomeArc::onMessage -> MonomeDevice::onMessage
onMessage(d, h, m) ==
  Res(d, TRUE,
      IF m.address = <<>> THEN <<>>
      ELSE IF d.class = "MonomeGrid"
           THEN Grid_handleDeviceInput(d, h, m.address, m.value)
           ELSE Arc_handleDeviceInput(d, h, m.address, m.value))

ringAll(d, h, ring, level) ==
  sendTo(h, "/ring/all", <<AddrPrefix(d), ring, level>>)

\* ~MonomeGrid: clear the LEDs if still connected
Grid_destructor(d, h) == IF d.connected_ THEN ledAll(d, h, FALSE) ELSE <<>>

RECURSIVE ringAllLoop(_, _, _, _)
ringAllLoop(d, h, i, count) ==
  IF i >= count \/ i >= kMaxEncoders THEN <<>>
  ELSE ringAll(d, h, i, 0) \o ringAllLoop(d, h, i + 1, count)

\* ~MonomeArc: clear the LEDs of every ring if still connected
Arc_destructor(d, h) ==
  IF d.connected_ THEN ringAllLoop(d, h, 0, getEncoderCount(d)) ELSE <<>>

\* ~MonomeDevice: disconnect(); stop()
Device_destructor(d, h) == disconnect(d, h).evs \o <<Ev("actorStop", h, "", <<>>)>>

\* a destructor that closes the sockets before it clears the LEDs
DestroyClosesFirst(d, h) ==
  Device_destructor(d, h)
    \o (IF d.class = "MonomeGrid" THEN Grid_destructor(d, h) ELSE Arc_destructor(d, h))
    \o <<Ev("destroy", h, "", <<>>)>>

\* delete: the destructor of the class, then the destructor of the base
Destroy(d, h) ==
  (IF d.class = "MonomeGrid" THEN Grid_destructor(d, h) ELSE Arc_destructor(d, h))
    \o Device_destructor(d, h) \o <<Ev("destroy", h, "", <<>>)>>

(***************************************************************************)
(* State                                                                   *)
(***************************************************************************)
VARIABLES
  running_,            \* SerialOscService::running_
  subscribed_,         \* SerialOscService::subscribed_
  sender_,             \* the service's sender to the daemon is open
  receiver_,           \* the service's receiver is open
  host_,               \* SerialOscService::host_
  localPort_,          \* SerialOscService::localPort_
  nextDevicePort_,     \* SerialOscService::nextDevicePort_
  devices_,            \* the registry: a set of entries [key, h]
  listenerActorPath_,  \* SerialOscService::listenerActorPath_
  deviceCallback_,     \* a device callback is set
  heap,                \* the live device objects, by handle
  router,              \* handles registered with the message router
  lastCleared,         \* history: per grid handle, the levels of its buffer at
                       \* the last flush (all 0 for a new buffer)
  addSeen,             \* history: ids with a device/add message since the last remove/stop
  addOk,               \* history: ids with a successful add since the last remove/stop
  cbTrue,              \* history: number of (id, true) callbacks since the last remove/stop
  cbOpen,              \* history: the identities whose last callback was (id, true)
  threads,             \* the owner of devicesMutex_ and, per thread, the position
                       \* in the operation it runs and the operation's locals
  shown,               \* history: the LEDs the map commands sent to a grid have
                       \* lit, as tuples <<handle, x, y, level>> with level > 0
  lastOp,              \* the operation that ran last and its outcome
  lastEvents           \* what the last operation did, in order

svcVars == <<running_, subscribed_, sender_, receiver_, host_, localPort_,
             nextDevicePort_, devices_, listenerActorPath_, deviceCallback_,
             router, addSeen, addOk, cbTrue, cbOpen>>
bufVars == <<lastCleared, threads, shown>>
\* the variables of the program (the others record history)
progVars == <<running_, subscribed_, sender_, receiver_, host_, localPort_,
              nextDevicePort_, devices_, listenerActorPath_, deviceCallback_,
              router, heap>>
vars == <<svcVars, heap, bufVars, lastEvents, lastOp>>

Op(name, id, outcome) == [op |-> name, id |-> id, outcome |-> outcome]

\* no thread holds the lock and no thread is inside an operation
ThreadsIdle ==
  [lock |-> "",
   rxPc |-> "idle", rxId |-> "", rxType |-> <<>>, rxPort |-> 0, rxH |-> NoHandle,
   rxInfoId |-> "",
   appPc |-> "idle", appHeld |-> NoHandle, appDangling |-> FALSE, appArg |-> NoPath,
   ctlPc |-> "idle"]

(***************************************************************************)
(* The registry: std::map<std::string, std::unique_ptr<MonomeDevice>>      *)
(***************************************************************************)
Keys(reg) == {e.key : e \in reg}
Handles(reg) == {e.h : e \in reg}
find(reg, key) == {e \in reg : e.key = key}
\* an assignment that leaves the map as it was
assignDropped(reg, key, h) == reg
\* devices_[key] = std::move(device)
assign(reg, key, h) == {e \in reg : e.key # key} \cup {[key |-> key, h |-> h]}
\* erase that is never called
eraseNothing(reg, key) == reg
erase(reg, key) == {e \in reg : e.key # key}
\* clear that is never called
clearSkipped(reg) == reg
clear(reg) == {}

\* operator new: a handle no live object has
NewHandle(hp) == CHOOSE h \in 1..(Cardinality(DOMAIN hp) + 1) : h \notin DOMAIN hp

(***************************************************************************)
(* Ports                                                                   *)
(***************************************************************************)
\* a bind test that does not see the ports this process holds
OwnPortsUnseen == {}
\* ports this process holds bound through an open receiver
OwnPorts ==
  (IF receiver_ THEN {localPort_} ELSE {})
    \cup {heap[h].localPort_ : h \in {x \in DOMAIN heap : heap[x].receiverOpen}}

Window(startPort) == startPort..(startPort + kScanWindow - 1)

\* what other processes may hold bound while a scan from startPort runs
EnvBusy(startPort) ==
  {startPort..(startPort + k - 1) : k \in 0..MaxSkip} \cup {Window(startPort)}

\* what the operating system may answer to one scan and the two socket opens
\* after it: <<busy, sOk, rOk>>; with no free port no socket is opened, and
\* the second open is not tried when the first fails
EnvAnswers(startPort) ==
  ((EnvBusy(startPort) \ {Window(startPort)})
     \X {<<TRUE, TRUE>>, <<FALSE, TRUE>>, <<TRUE, FALSE>>})
  \cup {<<Window(startPort), <<TRUE, TRUE>>>>}

RECURSIVE scanPorts(_, _, _)
\* a scan that returns the port after the window when no port binds
scanPortsPastEnd(port, endPort, busy) ==
  LET free == {p \in port..(endPort - 1) : p \notin busy}
  IN IF free = {} THEN endPort
     ELSE CHOOSE p \in free : \A q \in free : p <= q
scanPorts(port, endPort, busy) ==
  IF port >= endPort THEN 0
  ELSE IF port \notin busy THEN port
  ELSE scanPorts(port + 1, endPort, busy)

\* findAvailablePort: the first port of the window a test socket binds
findAvailablePort(startPort, busy) ==
  scanPorts(startPort, startPort + kScanWindow, busy)

\* createDevice without the nullptr branch: what is not a grid is an arc
createDeviceNoNull(info) ==
  IF isGrid(info) THEN <<MonomeGrid(info)>> ELSE <<MonomeArc(info)>>

\* createDevice: <<the new object>>, or <<>> for nullptr
createDevice(info) ==
  IF isGrid(info) THEN <<MonomeGrid(info)>>
  ELSE IF isArc(info) THEN <<MonomeArc(info)>>
  ELSE <<>>

(***************************************************************************)
(* Init                                                                    *)
(***************************************************************************)
NoObjects == [h \in {} |-> 0]

InitService ==
  /\ running_ = FALSE
  /\ subscribed_ = FALSE
  /\ sender_ = FALSE
  /\ receiver_ = FALSE
  /\ host_ = "127.0.0.1"
  /\ localPort_ = 0
  /\ nextDevicePort_ = kFirstDevicePort
  /\ devices_ = {}
  /\ listenerActorPath_ = NoPath
  /\ deviceCallback_ = FALSE
  /\ router = {}
  /\ addSeen = {}
  /\ addOk = {}
  /\ cbTrue = [i \in Ids |-> 0]
  /\ cbOpen = {}
  /\ threads = ThreadsIdle
  /\ shown = {}

Init ==
  /\ InitService
  /\ lastCleared = NoObjects
  /\ heap = NoObjects
  /\ lastOp = Op("init", "", "")
  /\ lastEvents = <<>>

(***************************************************************************)
(* SerialOscService                                                        *)
(***************************************************************************)
\* start(host); busy: ports other processes hold; rOk, sOk: whether the
\* receiver and the sender open
start(host, busy, rOk, sOk) ==
  /\ UNCHANGED <<nextDevicePort_, devices_, listenerActorPath_, deviceCallback_,
                 router, addSeen, addOk, cbTrue, cbOpen, heap, bufVars>>
  /\ IF running_
     THEN /\ UNCHANGED <<running_, subscribed_, sender_, receiver_, host_, localPort_>>
          /\ lastOp' = Op("start", "", "already")
          /\ lastEvents' = <<>>
     ELSE
       LET port == findAvailablePort(kServiceBasePort, busy \cup OwnPorts)
       IN /\ host_' = host
          /\ localPort_' = port
          /\ IF port = 0
             THEN /\ UNCHANGED <<running_, subscribed_, sender_, receiver_>>
                  /\ lastOp' = Op("start", "", "noport")
                  /\ lastEvents' = <<>>
             ELSE IF ~rOk
             THEN /\ UNCHANGED <<running_, subscribed_, sender_, receiver_>>
                  /\ lastOp' = Op("start", "", "receiverfail")
                  /\ lastEvents' = <<>>
             ELSE IF ~sOk
             THEN /\ UNCHANGED <<running_, subscribed_, sender_, receiver_>>
                  /\ lastOp' = Op("start", "", "senderfail")
                  /\ lastEvents' = <<Ev("openReceiver", NoHandle, "", <<port>>),
                                     Ev("closeReceiver", NoHandle, "", <<>>)>>
             ELSE /\ running_' = TRUE
                  /\ receiver_' = TRUE
                  /\ sender_' = TRUE
                  /\ subscribed_' = TRUE
                  /\ lastOp' = Op("start", "", "started")
                  /\ lastEvents' =
                       <<Ev("openReceiver", NoHandle, "", <<port>>),
                         Ev("openSender", NoHandle, "", <<host, kSerialOscPort>>),
                         Ev("actorStart", NoHandle, "", <<>>)>>
                       \o sendTo(NoHandle, "/serialosc/notify", <<host, port>>)
                       \o sendTo(NoHandle, "/serialosc/list", <<host, port>>)

RECURSIVE DestroyAll(_, _)
\* devices_.clear(): the map destroys its devices in key order
DestroyAll(reg, hp) ==
  IF reg = {} THEN <<>>
  ELSE LET e == CHOOSE x \in reg : \A y \in reg : IdRank(x.key) <= IdRank(y.key)
       IN Destroy(hp[e.h], e.h) \o DestroyAll(reg \ {e}, hp)

stop ==
  /\ UNCHANGED <<host_, localPort_, nextDevicePort_, listenerActorPath_,
                 deviceCallback_, router, bufVars>>
  /\ IF ~running_
     THEN /\ UNCHANGED <<running_, subscribed_, sender_, receiver_, devices_, heap,
                         addSeen, addOk, cbTrue, cbOpen>>
          /\ lastOp' = Op("stop", "", "notrunning")
          /\ lastEvents' = <<>>
     ELSE /\ devices_' = clear(devices_)
          /\ heap' = [h \in DOMAIN heap \ Handles(devices_) |-> heap[h]]
          /\ sender_' = FALSE
          /\ receiver_' = FALSE
          /\ running_' = FALSE
          /\ subscribed_' = FALSE
          /\ addSeen' = {}
          /\ addOk' = {}
          /\ cbTrue' = [i \in Ids |-> 0]
          /\ UNCHANGED cbOpen
          /\ lastOp' = Op("stop", "", "stopped")
          /\ lastEvents' = DestroyAll(devices_, heap)
                           \o <<Ev("closeSender", NoHandle, "", <<>>),
                                Ev("closeReceiver", NoHandle, "", <<>>),
                                Ev("actorStop", NoHandle, "", <<>>)>>

setListenerActor(actorPath) ==
  /\ listenerActorPath_' = actorPath
  /\ heap' = [h \in DOMAIN heap |->
                IF h \in Handles(devices_)
                THEN Device_setListenerActor(heap[h], actorPath) ELSE heap[h]]
  /\ lastOp' = Op("setListenerActor", actorPath, "")
  /\ lastEvents' = <<>>
  /\ UNCHANGED <<running_, subscribed_, sender_, receiver_, host_, localPort_,
                 nextDevicePort_, devices_, deviceCallback_, router, addSeen,
                 addOk, cbTrue, cbOpen, bufVars>>

setDeviceCallback(cb) ==
  /\ deviceCallback_' = cb
  /\ lastOp' = Op("setDeviceCallback", "", "")
  /\ lastEvents' = <<>>
  /\ UNCHANGED <<running_, subscribed_, sender_, receiver_, host_, localPort_,
                 nextDevicePort_, devices_, listenerActorPath_, router, addSeen,
                 addOk, cbTrue, cbOpen, heap, bufVars>>

\* the check looks the identity up in an empty map
alreadyRegisteredStale(reg, idKey) == find({}, idKey) # {}

\* the check at the head of handleDeviceAdd: the identity has an entry
alreadyRegistered(reg, idKey) == find(reg, idKey) # {}

\* history of an add: the type string of the message and what the operating
\* system answered to the port scan and to the socket opens, "n/a" when the
\* handler did not get that far
AddOp(id, outcome, type, scan, sock) ==
  [op |-> "add", id |-> id, outcome |-> outcome, type |-> type,
   scan |-> scan, sock |-> sock]

SockAnswer(sOk, rOk) == IF ~sOk THEN "sender" ELSE IF ~rOk THEN "receiver" ELSE "ok"

\* the tail of handleDeviceAdd: the callback, then the message to the listener
notifyAdded(cb, listener, h, info, id) ==
  (IF cb THEN <<Ev("callback", h, info.id, <<TRUE>>)>> ELSE <<>>)
  \o (IF listener # NoPath
      THEN <<Ev("notify", h, "serialosc/device/add", <<id>>)>> ELSE <<>>)

\* handleDeviceAdd(id, type, port); busy: ports other processes hold during
\* the scan; sOk, rOk: whether the device's sockets open
handleDeviceAdd(id, type, port, busy, sOk, rOk) ==
  LET idKey == id
      info == parseType(MonomeDeviceInfo(id, type, port))
      created == createDevice(info)
      h == NewHandle(heap)
      dev0 == created[1]
      dev1 == IF listenerActorPath_ # NoPath
              THEN Device_setListenerActor(dev0, listenerActorPath_) ELSE dev0
      deviceLocalPort == findAvailablePort(nextDevicePort_, busy \cup OwnPorts)
      scan == IF Window(nextDevicePort_) \subseteq (busy \cup OwnPorts)
              THEN "none" ELSE "found"
      c == connect(dev1, h, host_, deviceLocalPort, sOk, rOk)
      newEv == <<Ev("new", h, "", <<>>)>>
      \* devices_[idKey] = std::move(device) destroys what the entry held
      replaced == Handles(find(devices_, idKey))
  IN /\ UNCHANGED <<running_, subscribed_, sender_, receiver_, host_, localPort_,
                    listenerActorPath_, deviceCallback_, bufVars>>
     /\ addSeen' = addSeen \cup {id}
     /\ IF alreadyRegistered(devices_, idKey)
        THEN /\ UNCHANGED <<nextDevicePort_, devices_, heap, router, addOk, cbTrue, cbOpen>>
             /\ lastOp' = AddOp(id, "duplicate", type, "n/a", "n/a")
             /\ lastEvents' = <<>>
        ELSE IF Len(created) = 0
        THEN /\ UNCHANGED <<nextDevicePort_, devices_, heap, router, addOk, cbTrue, cbOpen>>
             /\ lastOp' = AddOp(id, "unknown", type, "n/a", "n/a")
             /\ lastEvents' = <<>>
        ELSE IF deviceLocalPort = 0
        THEN /\ UNCHANGED <<nextDevicePort_, devices_, heap, router, addOk, cbTrue, cbOpen>>
             /\ lastOp' = AddOp(id, "noport", type, scan, "n/a")
             /\ lastEvents' = newEv \o Destroy(dev1, h)
        ELSE IF ~c.ret
        THEN /\ nextDevicePort_' = deviceLocalPort + 1
             /\ UNCHANGED <<devices_, heap, router, addOk, cbTrue, cbOpen>>
             /\ lastOp' = AddOp(id, "connectfail", type, scan, SockAnswer(sOk, rOk))
             /\ lastEvents' = newEv \o c.evs \o Destroy(c.d, h)
        ELSE /\ nextDevicePort_' = deviceLocalPort + 1
             /\ router' = router \cup {h}
             /\ devices_' = assign(devices_, idKey, h)
             /\ heap' = [x \in (DOMAIN heap \ replaced) \cup {h} |->
                           IF x = h THEN c.d ELSE heap[x]]
             /\ addOk' = addOk \cup {id}
             /\ cbTrue' = IF deviceCallback_
                          THEN [cbTrue EXCEPT ![id] = @ + 1] ELSE cbTrue
             /\ cbOpen' = IF deviceCallback_ THEN cbOpen \cup {info.id} ELSE cbOpen
             /\ lastOp' = AddOp(id, "added", type, scan, SockAnswer(sOk, rOk))
             /\ lastEvents' =
                  newEv \o c.evs
                  \o <<Ev("registerActor", h, "", <<>>), Ev("store", h, idKey, <<>>)>>
                  \o DestroyAll(find(devices_, idKey), heap)
                  \o notifyAdded(deviceCallback_, listenerActorPath_, h, info, id)

\* the tail copied from handleDeviceAdd with the connected flag left true
notifyRemovedAsAdded(cb, listener, h, info, id) ==
  (IF cb THEN <<Ev("callback", h, info.id, <<TRUE>>)>> ELSE <<>>)
  \o (IF listener # NoPath
      THEN <<Ev("notify", h, "serialosc/device/remove", <<id>>)>> ELSE <<>>)

\* the tail of handleDeviceRemove: the callback with the info read from the
\* device, then the message to the listener
notifyRemoved(cb, listener, h, info, id) ==
  (IF cb THEN <<Ev("callback", h, info.id, <<FALSE>>)>> ELSE <<>>)
  \o (IF listener # NoPath
      THEN <<Ev("notify", h, "serialosc/device/remove", <<id>>)>> ELSE <<>>)

handleDeviceRemove(id) ==
  LET idKey == id
      found == find(devices_, idKey)
      e == CHOOSE x \in found : TRUE
      d == heap[e.h]
      info == d.info
  IN /\ UNCHANGED <<running_, subscribed_, sender_, receiver_, host_, localPort_,
                    nextDevicePort_, listenerActorPath_, deviceCallback_, bufVars>>
     /\ addSeen' = addSeen \ {id}
     /\ addOk' = addOk \ {id}
     /\ cbTrue' = [cbTrue EXCEPT ![id] = 0]
     /\ IF found = {}
        THEN /\ UNCHANGED <<devices_, heap, router, cbOpen>>
             /\ lastOp' = Op("remove", id, "unknown")
             /\ lastEvents' = <<>>
        ELSE /\ router' = router \ {e.h}
             /\ devices_' = erase(devices_, idKey)
             /\ heap' = [x \in DOMAIN heap \ {e.h} |-> heap[x]]
             /\ cbOpen' = IF deviceCallback_ THEN cbOpen \ {info.id} ELSE cbOpen
             /\ lastOp' = Op("remove", id, "removed")
             /\ lastEvents' =
                  <<Ev("removeActor", e.h, "", <<>>), Ev("erase", e.h, idKey, <<>>)>>
                  \o Destroy(d, e.h)
                  \o notifyRemoved(deviceCallback_, listenerActorPath_, e.h, info, id)

\* a message of the daemon: the address after the leading "/" and the arguments
DaemonMsg(path, args) == [path |-> path, args |-> args]

handleDiscoveryMessage(m, busy, sOk, rOk) ==
  IF /\ Len(m.path) >= 2
     /\ m.path[1] = "serialosc"
     /\ m.path[2] \in {"device", "add"}
     /\ Len(m.args) >= 3
  THEN handleDeviceAdd(m.args[1], m.args[2], m.args[3], busy, sOk, rOk)
  ELSE IF /\ Len(m.path) >= 2
          /\ m.path[1] = "serialosc"
          /\ m.path[2] = "remove"
          /\ Len(m.args) >= 1
  THEN handleDeviceRemove(m.args[1])
  ELSE /\ UNCHANGED <<svcVars, heap, bufVars>>
       /\ lastOp' = Op("ignored", "", "")
       /\ lastEvents' = <<>>

\* the message makes a grid replace its LED buffer by a new one
ReplacesBuffer(d, path, args) ==
  /\ d.class = "MonomeGrid"
  /\ Len(path) >= 2 /\ path[2] = "size" /\ Len(args) >= 2
  /\ args[1] > 0 /\ args[2] > 0

\* a /sys/* message arrives at the receiver of device h
\* (MonomeDevice::handleOSCMessage, the branch for system messages)
DeviceSys(h, path, args) ==
  /\ h \in DOMAIN heap
  /\ heap[h].receiverOpen
  /\ Len(path) >= 1 /\ path[1] = "sys"
  /\ heap' = [heap EXCEPT ![h] = handleSysMessage(@, path, args)]
  /\ lastCleared' = IF h \in DOMAIN lastCleared /\ ReplacesBuffer(heap[h], path, args)
                    THEN [lastCleared EXCEPT ![h] = NoLevels] ELSE lastCleared
  /\ UNCHANGED <<threads, shown>>
  /\ lastOp' = Op("sys", heap[h].info.id, path[Len(path)])
  /\ lastEvents' = <<>>
  /\ UNCHANGED svcVars

(***************************************************************************)
(* SpecService: the application drives the service, the daemon and the     *)
(* devices send messages                                                   *)
(***************************************************************************)
DaemonMsgs ==
  {DaemonMsg(<<"serialosc", sub>>, <<id, type, port>>) :
     sub \in {"device", "add"}, id \in Ids, type \in TypeStrings, port \in DevicePorts}
  \cup {DaemonMsg(<<"serialosc", "remove">>, <<id>>) : id \in Ids}
  \cup {DaemonMsg(<<"serialosc", "add">>, <<"m1", TypeGrid128>>),
        DaemonMsg(<<"serialosc">>, <<"m1">>)}

\* the identity a device may push with /sys/id
SysIdMsgs == {<<"sys", "id">>} \X {<<id>> : id \in Ids}

AppStart ==
  \E host \in Hosts, env \in EnvAnswers(kServiceBasePort) :
    start(host, env[1], env[2][1], env[2][2])

AppStop == stop

AppSetListenerActor == \E p \in ListenerPaths \cup {NoPath} : setListenerActor(p)

AppSetDeviceCallback == \E cb \in BOOLEAN : setDeviceCallback(cb)

\* the message makes handleDiscoveryMessage call handleDeviceAdd
IsAdd(m) == Len(m.path) >= 2 /\ m.path[2] \in {"device", "add"} /\ Len(m.args) >= 3

DaemonMessage ==
  /\ receiver_
  /\ \E m \in DaemonMsgs :
       IF IsAdd(m)
       THEN /\ nextDevicePort_ < kFirstDevicePort + MaxPortAdvance
            /\ \E env \in EnvAnswers(nextDevicePort_) :
                 handleDiscoveryMessage(m, env[1], env[2][1], env[2][2])
       ELSE handleDiscoveryMessage(m, {}, TRUE, TRUE)

DeviceSysMessage ==
  \E h \in DOMAIN heap, m \in SysIdMsgs : DeviceSys(h, m[1], m[2])

\* the devices the application disconnects itself
DisconnectIds == {IdOrder[1]}

\* the application disconnects a device it got from getDevice(id)
AppDisconnectDevice ==
  \E e \in {x \in devices_ : x.key \in DisconnectIds} :
    LET r == disconnect(heap[e.h], e.h)
    IN /\ heap' = [heap EXCEPT ![e.h] = r.d]
       /\ lastOp' = Op("device.disconnect", e.key, r.ret)
       /\ lastEvents' = r.evs
       /\ UNCHANGED <<svcVars, bufVars>>

NextService ==
  \/ AppStart
  \/ AppStop
  \/ AppSetListenerActor
  \/ AppSetDeviceCallback
  \/ DaemonMessage
  \/ DeviceSysMessage
  \/ AppDisconnectDevice

SpecService == Init /\ [][NextService]_vars

(***************************************************************************)
(* SpecDevice: one device object (handle 1) driven through the operations  *)
(* of MonomeDevice, with the messages its receiver delivers                *)
(***************************************************************************)
\* the handle operator new gives the first object
TheDevice == NewHandle(NoObjects)
DeviceHosts == {"127.0.0.1", "10.0.0.2"}
LocalPorts == {13001, 13002}
Prefixes == {kDefaultMonomePrefix, "/box"}
Rotations == {-90, 0, 100, 270, 450}

DeviceSysMsgs ==
  ({<<"sys", "id">>} \X {<<id>> : id \in Ids})
  \cup ({<<"sys", "prefix">>} \X {<<p>> : p \in Prefixes})
  \cup ({<<"sys", "rotation">>} \X {<<0>>, <<180>>, <<45>>})
  \cup ({<<"sys", "host">>} \X {<<"127.0.0.1">>})
  \cup ({<<"sys", "port">>} \X {<<13001>>})
  \cup {<<(<<"sys">>), (<<1>>)>>, <<(<<"sys", "id">>), (<<>>)>>}

InitDevice ==
  /\ InitService
  /\ lastCleared = NoObjects
  /\ \E type \in {TypeGrid128, TypeArc4} :
       heap = [h \in {TheDevice} |->
                 createDevice(parseType(MonomeDeviceInfo("m1", type, 15001)))[1]]
  /\ lastOp = Op("init", "", "")
  /\ lastEvents = <<>>

\* an operation of the device: r is its result
DeviceStep(name, r) ==
  /\ heap' = [heap EXCEPT ![TheDevice] = r.d]
  /\ lastOp' = Op(name, heap[TheDevice].info.id, r.ret)
  /\ lastEvents' = r.evs
  /\ UNCHANGED <<svcVars, bufVars>>

DevConnect ==
  \E host \in DeviceHosts, port \in LocalPorts, sOk \in BOOLEAN, rOk \in BOOLEAN :
    LET r == connect(heap[TheDevice], TheDevice, host, port, sOk, rOk)
    IN /\ heap' = [heap EXCEPT ![TheDevice] = r.d]
       /\ lastOp' = [op |-> "connect", id |-> heap[TheDevice].info.id,
                     outcome |-> r.ret, host |-> host, port |-> port,
                     sOk |-> sOk, rOk |-> rOk]
       /\ lastEvents' = r.evs
       /\ UNCHANGED <<svcVars, bufVars>>

DevDisconnect == DeviceStep("disconnect", disconnect(heap[TheDevice], TheDevice))

DevSetPrefix ==
  \E p \in Prefixes : DeviceStep("setPrefix", setPrefix(heap[TheDevice], TheDevice, p))

DevSetRotation ==
  \E r \in Rotations :
    DeviceStep("setRotation", setRotation(heap[TheDevice], TheDevice, r))

DevQueryInfo == DeviceStep("queryInfo", queryInfo(heap[TheDevice], TheDevice))

DevSetListenerActor ==
  \E p \in ListenerPaths \cup {NoPath} :
    DeviceStep("setListenerActor",
               Res(Device_setListenerActor(heap[TheDevice], p), TRUE, <<>>))

DevSysMessage == \E m \in DeviceSysMsgs : DeviceSys(TheDevice, m[1], m[2])

NextDevice ==
  \/ DevConnect
  \/ DevDisconnect
  \/ DevSetPrefix
  \/ DevSetRotation
  \/ DevQueryInfo
  \/ DevSetListenerActor
  \/ DevSysMessage

SpecDevice == InitDevice /\ [][NextDevice]_vars

(***************************************************************************)
(* One connected device and the input messages it receives                 *)
(***************************************************************************)
MaxQueue == 2

Connected(d) == connect(d, TheDevice, "127.0.0.1", kFirstDevicePort, TRUE, TRUE).d

GridKeyPath == <<"monome", "grid", "key">>
TiltPath == <<"monome", "tilt">>
EncDeltaPath == <<"monome", "enc", "delta">>
EncKeyPath == <<"monome", "enc", "key">>

\* what arrives at the device's receiver: <<address, arguments>>
InputMsgs ==
  {<<GridKeyPath, <<IntValue(1), IntValue(2), IntValue(1)>>>>,
   <<GridKeyPath, <<FloatValue(3), FloatValue(4), FloatValue(0)>>>>,
   <<GridKeyPath, <<IntValue(1), IntValue(2)>>>>,
   <<GridKeyPath, <<IntValue(1), IntValue(2), IntValue(1), IntValue(9)>>>>,
   <<GridKeyPath, <<IntValue(1), TextValue, IntValue(1)>>>>,
   <<GridKeyPath, <<IntValue(5)>>>>,
   <<GridKeyPath, <<>>>>,
   <<Tail(GridKeyPath), <<IntValue(0), IntValue(0), IntValue(1)>>>>,
   <<TiltPath, <<IntValue(0), IntValue(-1), IntValue(2), IntValue(3)>>>>,
   <<TiltPath, <<IntValue(0), IntValue(1), IntValue(2)>>>>,
   <<EncDeltaPath, <<IntValue(0), IntValue(-3)>>>>,
   <<EncDeltaPath, <<IntValue(0), IntValue(1), IntValue(2)>>>>,
   <<EncKeyPath, <<IntValue(1), IntValue(1)>>>>,
   <<EncKeyPath, <<TextValue, IntValue(1)>>>>,
   <<(<<>>), <<IntValue(1), IntValue(2), IntValue(1)>>>>}

InitInput ==
  /\ InitService
  /\ lastCleared = NoObjects
  /\ \E type \in {TypeGrid128, TypeArc4} :
       heap = [h \in {TheDevice} |->
                 Connected(createDevice(parseType(MonomeDeviceInfo("m1", type, 15001)))[1])]
  /\ lastOp = Op("init", "", "")
  /\ lastEvents = <<>>

\* the receiver thread hands a message to handleOSCMessage
DevInput ==
  \E m \in InputMsgs :
    /\ heap[TheDevice].receiverOpen
    /\ Len(heap[TheDevice].queue) < MaxQueue
    /\ DeviceStep("handleOSCMessage",
                  Res(handleOSCMessage(heap[TheDevice], m[1], m[2]), TRUE, <<>>))

\* the actor takes the oldest message of its queue and calls onMessage
DevOnMessage ==
  /\ heap[TheDevice].queue # <<>>
  /\ LET m == Head(heap[TheDevice].queue)
         d == [heap[TheDevice] EXCEPT !.queue = Tail(@)]
     IN DeviceStep("onMessage", onMessage(d, TheDevice, m))

NextInput ==
  \/ DevInput
  \/ DevOnMessage
  \/ DevSetListenerActor
  \/ DevSetPrefix

SpecInput == InitInput /\ [][NextInput]_vars

(***************************************************************************)
(* SpecBuffer: the application writes the LED buffer of a connected grid   *)
(* or the ring buffers of a connected arc (handle 1) and flushes; the grid *)
(* reports its size                                                        *)
(***************************************************************************)
GridCells == {<<0, 0>>, <<9, 1>>, <<-1, 0>>, <<16, 8>>}
SetCells == {<<9, 1>>, <<16, 8>>}
ToggleCells == {<<0, 0>>, <<-1, 0>>}
SetLevels == {-1, 7, 16}
FillLevels == {0, 20}
Rects == {<<7, 7, 2, 2>>}
GridSizes == {<<16, 16>>}
RingArgs == {0, 5}
Leds == {-1, 0, 64}
Ranges == {<<62, 1>>}

InitBuffer ==
  /\ InitService
  /\ lastCleared = [h \in {TheDevice} |-> NoLevels]
  /\ \E type \in {TypeGrid128, TypeArc4, TypeArc2} :
       heap = [h \in {TheDevice} |->
                 Connected(createDevice(parseType(MonomeDeviceInfo("m1", type, 15001)))[1])]
  /\ lastOp = Op("init", "", "")
  /\ lastEvents = <<>>

TheGrid == heap[TheDevice].ledBuffer_
IsGridUnderStudy == heap[TheDevice].class = "MonomeGrid"
IsArcUnderStudy == heap[TheDevice].class = "MonomeArc"

InRange(b, p) == p[1] >= 0 /\ p[1] < b.width_ /\ p[2] >= 0 /\ p[2] < b.height_
QuadrantOf(p) == <<p[1] \div kQuadrantSize, p[2] \div kQuadrantSize>>

\* history: the quadrants in which the write visits a cell of the buffer
\* that does not hold the clamped level
DifferingQuadrants(b, visited, level) ==
  {QuadrantOf(p) : p \in {c \in visited :
      InRange(b, c) /\ Grid_getLevel(b, c[1], c[2]) # clampLevel(level)}}

\* a write to the grid buffer: b2 is the buffer after it
GridWrite(name, b2, visited, level) ==
  /\ IsGridUnderStudy
  /\ heap' = [heap EXCEPT ![TheDevice].ledBuffer_ = b2]
  /\ lastOp' = Op(name, "grid", DifferingQuadrants(TheGrid, visited, level))
  /\ lastEvents' = <<>>
  /\ UNCHANGED <<svcVars, bufVars>>

RectCells(r) == (r[1]..(r[1] + r[3] - 1)) \X (r[2]..(r[2] + r[4] - 1))
AllCells == (0..(TheGrid.width_ - 1)) \X (0..(TheGrid.height_ - 1))

GridSetLevel ==
  \E c \in GridCells, level \in SetLevels :
    GridWrite("setLevel", Grid_setLevel(TheGrid, c[1], c[2], level), {c}, level)

GridFill ==
  \E level \in FillLevels : GridWrite("fill", Grid_fill(TheGrid, level), AllCells, level)

GridFillRect ==
  \E r \in Rects, level \in FillLevels :
    GridWrite("fillRect", Grid_fillRect(TheGrid, r[1], r[2], r[3], r[4], level),
              RectCells(r), level)

GridSet ==
  \E c \in SetCells, on \in BOOLEAN :
    GridWrite("set", Grid_set(TheGrid, c[1], c[2], on), {c},
              IF on THEN kMaxLevel ELSE 0)

GridToggle ==
  \E c \in ToggleCells :
    GridWrite("toggle", Grid_toggle(TheGrid, c[1], c[2]), {c},
              IF Grid_getLevel(TheGrid, c[1], c[2]) > 0 THEN 0 ELSE kMaxLevel)

GridClear == GridWrite("clear", Grid_clear(TheGrid), AllCells, 0)

\* a flush of the grid: r is its result
GridFlushStep(name, r) ==
  /\ IsGridUnderStudy
  /\ heap' = [heap EXCEPT ![TheDevice] = r.d]
  /\ lastCleared' = [lastCleared EXCEPT ![TheDevice] = TheGrid.levels_]
  /\ UNCHANGED <<threads, shown>>
  /\ lastOp' = Op(name, "grid", "")
  /\ lastEvents' = r.evs
  /\ UNCHANGED svcVars

GridFlush == GridFlushStep("flushLedBuffer", flushLedBuffer(heap[TheDevice], TheDevice))

GridFlushBinary ==
  GridFlushStep("flushLedBufferBinary", flushLedBufferBinary(heap[TheDevice], TheDevice))

GridSizeReport ==
  /\ IsGridUnderStudy
  /\ \E sz \in GridSizes : DeviceSys(TheDevice, <<"sys", "size">>, sz)

\* a write to ring buffer getRingBuffer(ring): b2 is the buffer after it
RingWrite(name, ring, b2, leds, level) ==
  /\ IsArcUnderStudy
  /\ heap' = [heap EXCEPT ![TheDevice].ringBuffers_[ringSlot(ring)] = b2]
  /\ lastOp' = Op(name, ringSlot(ring),
                  \E i \in leds \cap (0..(kLedCount - 1)) :
                    Ring_getLevel(heap[TheDevice].ringBuffers_[ringSlot(ring)], i)
                      # clampLevel(level))
  /\ lastEvents' = <<>>
  /\ UNCHANGED <<svcVars, bufVars>>

getRingBuffer(ring) == heap[TheDevice].ringBuffers_[ringSlot(ring)]

RingSetLevel ==
  \E ring \in RingArgs, led \in Leds, level \in SetLevels :
    RingWrite("ring.setLevel", ring, Ring_setLevel(getRingBuffer(ring), led, level),
              {led}, level)

RingFill ==
  \E ring \in RingArgs, level \in FillLevels :
    RingWrite("ring.fill", ring, Ring_fill(getRingBuffer(ring), level),
              0..(kLedCount - 1), level)

\* the slots of the inclusive circular interval from start to end
CircularInterval(from, to) ==
  LET s == from % kLedCount
      e == to % kLedCount
  IN IF s <= e THEN s..e ELSE (s..(kLedCount - 1)) \cup (0..e)

RingFillRange ==
  \E ring \in RingArgs, r \in Ranges, level \in FillLevels :
    RingWrite("ring.fillRange", ring, fillRange(getRingBuffer(ring), r[1], r[2], level),
              CircularInterval(r[1], r[2]), level)

\* a flush of the arc: ring is the argument (-1 for flushRingBuffers), r the result
ArcFlushStep(name, ring, r) ==
  /\ IsArcUnderStudy
  /\ heap' = [heap EXCEPT ![TheDevice] = r.d]
  /\ lastOp' = Op(name, ring, "")
  /\ lastEvents' = r.evs
  /\ UNCHANGED <<svcVars, bufVars>>

ArcFlushRing ==
  \E ring \in RingArgs \cup {-1, kMaxEncoders - 1} :
    ArcFlushStep("flushRingBuffer", ring, flushRingBuffer(heap[TheDevice], TheDevice, ring))

ArcFlushAll ==
  ArcFlushStep("flushRingBuffers", -1, flushRingBuffers(heap[TheDevice], TheDevice))

NextBuffer ==
  \/ GridSetLevel
  \/ GridFill
  \/ GridFillRect
  \/ GridSet
  \/ GridToggle
  \/ GridClear
  \/ GridFlush
  \/ GridFlushBinary
  \/ GridSizeReport
  \/ RingSetLevel
  \/ RingFill
  \/ RingFillRange
  \/ ArcFlushRing
  \/ ArcFlushAll

SpecBuffer == InitBuffer /\ [][NextBuffer]_vars

(***************************************************************************)
(* SpecCells: writes to the buffers of a connected grid or arc, with the   *)
(* arguments of the write recorded.  SpecWide: a grid that may report a    *)
(* width above kMaxWidth                                                   *)
(***************************************************************************)
WideSizes == {<<kMaxWidth + kMaxWidth, kQuadrantSize>>, <<kMaxWidth, kMaxHeight>>}
WideCells == {<<0, 1>>, <<kMaxWidth, 0>>, <<9, 1>>}

InitCells ==
  /\ InitService
  /\ lastCleared = [h \in {TheDevice} |-> NoLevels]
  /\ \E type \in {TypeGrid128, TypeArc4} :
       heap = [h \in {TheDevice} |->
                 Connected(createDevice(parseType(MonomeDeviceInfo("m1", type, 15001)))[1])]
  /\ lastOp = Op("init", "", "")
  /\ lastEvents = <<>>

\* a write to the grid's buffer: cells are the cells it is to write, level
\* the level it was given
CellWrite(name, b2, cells, level) ==
  /\ IsGridUnderStudy
  /\ heap' = [heap EXCEPT ![TheDevice].ledBuffer_ = b2]
  /\ lastOp' = Op(name, "grid", "") @@ [cells |-> cells, level |-> level]
  /\ lastEvents' = <<>>
  /\ UNCHANGED <<svcVars, bufVars>>

\* a write to a ring of the arc: leds are the indices it is to write
LedWrite(name, ring, b2, leds, level) ==
  /\ IsArcUnderStudy
  /\ heap' = [heap EXCEPT ![TheDevice].ringBuffers_[ringSlot(ring)] = b2]
  /\ lastOp' = Op(name, ringSlot(ring), "") @@ [cells |-> leds, level |-> level]
  /\ lastEvents' = <<>>
  /\ UNCHANGED <<svcVars, bufVars>>

CellSetLevel ==
  \E c \in GridCells, level \in SetLevels :
    CellWrite("setLevel", Grid_setLevel(TheGrid, c[1], c[2], level), {c}, level)

CellFill ==
  \E level \in FillLevels : CellWrite("fill", Grid_fill(TheGrid, level), AllCells, level)

CellFillRect ==
  \E r \in Rects, level \in FillLevels :
    CellWrite("fillRect", Grid_fillRect(TheGrid, r[1], r[2], r[3], r[4], level),
              RectCells(r), level)

LedSetLevel ==
  \E ring \in RingArgs, led \in Leds, level \in SetLevels :
    LedWrite("ring.setLevel", ring, Ring_setLevel(getRingBuffer(ring), led, level),
             {led}, level)

LedFill ==
  \E ring \in RingArgs, level \in FillLevels :
    LedWrite("ring.fill", ring, Ring_fill(getRingBuffer(ring), level),
             0..(kLedCount - 1), level)

LedFillRange ==
  \E ring \in RingArgs, r \in Ranges, level \in FillLevels :
    LedWrite("ring.fillRange", ring, fillRange(getRingBuffer(ring), r[1], r[2], level),
             CircularInterval(r[1], r[2]), level)

NextCells ==
  \/ GridSizeReport
  \/ CellSetLevel
  \/ CellFill
  \/ CellFillRect
  \/ GridFlush
  \/ LedSetLevel
  \/ LedFill
  \/ LedFillRange
  \/ ArcFlushAll

SpecCells == InitCells /\ [][NextCells]_vars

InitWide == InitCells /\ IsGridUnderStudy

WideSizeReport == \E sz \in WideSizes : DeviceSys(TheDevice, <<"sys", "size">>, sz)

WideSetLevel ==
  \E c \in WideCells, level \in SetLevels :
    CellWrite("setLevel", Grid_setLevel(TheGrid, c[1], c[2], level), {c}, level)

NextWide ==
  \/ WideSizeReport
  \/ WideSetLevel
  \/ GridFlush

SpecWide == InitWide /\ [][NextWide]_vars

(***************************************************************************)
(* SpecRing: the application draws on ring 0 of a connected arc with       *)
(* fillRange, setPosition and setRange, the arguments recorded             *)
(***************************************************************************)
FillRanges == {<<60, 4>>, <<-3, 130>>, <<5, 5>>, <<6, 59>>}
RangeLevels == {10, -1}
Positions == {kLedCount, -1}
Brightnesses == {kMaxLevel, 20}
Falloffs == {0, 2, kLedCount \div 2 + 1, kLedCount}
NormRanges == {<<PosUnit - 4, 6>>}

InitRing ==
  /\ InitService
  /\ lastCleared = [h \in {TheDevice} |-> NoLevels]
  /\ heap = [h \in {TheDevice} |->
               Connected(createDevice(parseType(MonomeDeviceInfo("m1", TypeArc4, 15001)))[1])]
  /\ lastOp = Op("init", "", "")
  /\ lastEvents = <<>>

TheRing == heap[TheDevice].ringBuffers_[0]

\* a call on ring 0 with its arguments; b2 is the ring after the call
RingCall(name, b2, args) ==
  /\ heap' = [heap EXCEPT ![TheDevice].ringBuffers_[0] = b2]
  /\ lastOp' = Op(name, 0, "") @@ [args |-> args]
  /\ lastEvents' = <<>>
  /\ UNCHANGED <<svcVars, bufVars>>

RingFillRangeCall ==
  \E r \in FillRanges, level \in RangeLevels :
    RingCall("fillRange", fillRange(TheRing, r[1], r[2], level), <<r[1], r[2], level>>)

RingSetPosition ==
  \E pos \in Positions, brightness \in Brightnesses, falloff \in Falloffs :
    RingCall("setPosition", setPosition(TheRing, pos, brightness, falloff),
             <<pos, brightness, falloff>>)

RingSetRange ==
  \E r \in NormRanges, level \in RangeLevels :
    RingCall("setRange", setRange(TheRing, r[1], r[2], level), <<r[1], r[2], level>>)

NextRing ==
  \/ RingFillRangeCall
  \/ RingSetPosition
  \/ RingSetRange
  \/ ArcFlushAll

SpecRing == InitRing /\ [][NextRing]_vars

(***************************************************************************)
(* SpecParse: a device info built from a type string is classified         *)
(***************************************************************************)
MaxPieces == 3
Pieces == {StrMonome, StrArc, <<" ">>, <<"4">>, <<"1", "2">>, <<"-">>, <<"h">>,
           <<"g", "r", "i", "d">>}

\* the strings made of at most n pieces
RECURSIVE Concats(_)
Concats(n) ==
  IF n = 0 THEN {<<>>}
  ELSE LET shorter == Concats(n - 1)
       IN shorter \cup {t \o w : t \in shorter, w \in Pieces}

ParseInputs == Concats(MaxPieces) \cup {TypeGrid128, TypeArc4, TypeArc2, TypeArcBare, TypeUnknown}

InitParse ==
  /\ InitService
  /\ lastCleared = NoObjects
  /\ \E type \in ParseInputs :
       heap = [h \in {TheDevice} |-> [info |-> MonomeDeviceInfo("m1", type, 15001)]]
  /\ lastOp = Op("init", "", "")
  /\ lastEvents = <<>>

ParseType ==
  /\ lastOp.op = "init"
  /\ heap' = [heap EXCEPT ![TheDevice].info = parseType(@)]
  /\ lastOp' = Op("parseType", heap[TheDevice].info.id, "")
  /\ lastEvents' = <<>>
  /\ UNCHANGED <<svcVars, bufVars>>

NextParse == ParseType

SpecParse == InitParse /\ [][NextParse]_vars

(***************************************************************************)
(* SpecThreads: the operations of the service as their threads run them.   *)
(* The service's receiver thread runs handleDiscoveryMessage (the callback *)
(* set in the constructor), thread "app" looks devices up, uses them and   *)
(* sets the listener, thread "ctl" starts and stops the service.  A step   *)
(* is a stretch of an operation between two points where the registry lock *)
(* is taken or released or a field shared with another thread is touched.  *)
(***************************************************************************)
LockFree == threads.lock = ""

\* the accessors of the registry: the device's handle, NoHandle for nullptr
getDeviceType(d) == d.info.deviceType
getDevice(deviceId) ==
  IF find(devices_, deviceId) # {}
  THEN (CHOOSE e \in find(devices_, deviceId) : TRUE).h ELSE NoHandle
getGrid(deviceId) ==
  LET device == getDevice(deviceId)
  IN IF device # NoHandle /\ getDeviceType(heap[device]) = "Grid" THEN device
     ELSE NoHandle
getArc(deviceId) ==
  LET device == getDevice(deviceId)
  IN IF device # NoHandle /\ getDeviceType(heap[device]) = "Arc" THEN device
     ELSE NoHandle
\* the first entry of the kind in the order of the keys
FirstOfType(kind) ==
  LET es == {e \in devices_ : getDeviceType(heap[e.h]) = kind}
  IN IF es = {} THEN NoHandle
     ELSE (CHOOSE e \in es : \A y \in es : IdRank(e.key) <= IdRank(y.key)).h
getFirstGrid == FirstOfType("Grid")
getFirstArc == FirstOfType("Arc")

ThreadAddMsgs == {<<"m1", TypeGrid128, 15001>>, <<"m2", TypeArc4, 15001>>}
ThreadRemoveIds == {"m1"}
Lookups == {"getDevice", "getGrid", "getArc", "getFirstGrid", "getFirstArc"}
LookupIds == {"m1"}

\* the device the application holds is destroyed together with the objects gone
Dangling(gone) == threads.appDangling \/ threads.appHeld \in gone

InitThreads ==
  /\ InitService
  /\ lastCleared = NoObjects
  /\ heap = NoObjects
  /\ lastOp = Op("init", "", "")
  /\ lastEvents = <<>>

\* the variables of the service no step of a handler writes
ServiceFixed == <<running_, subscribed_, sender_, receiver_, host_, localPort_,
                  deviceCallback_, addSeen, addOk, cbTrue, cbOpen, lastCleared, shown>>

CtlStart ==
  /\ threads.ctlPc = "idle"
  /\ ~running_
  /\ \E host \in Hosts : start(host, {}, TRUE, TRUE)

\* stop(): the test of running_ and the lock_guard
CtlStopLock ==
  /\ threads.ctlPc = "idle"
  /\ running_
  /\ LockFree
  /\ threads' = [threads EXCEPT !.lock = "ctl", !.ctlPc = "stop.clear"]
  /\ lastOp' = Op("stop.lock", "", "")
  /\ lastEvents' = <<>>
  /\ UNCHANGED <<ServiceFixed, nextDevicePort_, devices_, listenerActorPath_, router, heap>>

\* devices_.clear() inside the lock's scope
CtlStopClear ==
  /\ threads.ctlPc = "stop.clear"
  /\ devices_' = clear(devices_)
  /\ heap' = [h \in DOMAIN heap \ Handles(devices_) |-> heap[h]]
  /\ threads' = [threads EXCEPT !.ctlPc = "stop.unlock",
                                !.appDangling = Dangling(Handles(devices_))]
  /\ lastOp' = Op("stop.clear", "", "")
  /\ lastEvents' = DestroyAll(devices_, heap)
  /\ UNCHANGED <<ServiceFixed, nextDevicePort_, listenerActorPath_, router>>

\* the end of the lock's scope
CtlStopUnlock ==
  /\ threads.ctlPc = "stop.unlock"
  /\ threads' = [threads EXCEPT !.lock = "", !.ctlPc = "stop.close"]
  /\ lastOp' = Op("stop.unlock", "", "")
  /\ lastEvents' = <<>>
  /\ UNCHANGED <<ServiceFixed, nextDevicePort_, devices_, listenerActorPath_, router, heap>>

\* the rest of stop(); receiver_.close() is taken to return when no callback
\* of the receiver is in flight
CtlStopClose ==
  /\ threads.ctlPc = "stop.close"
  /\ threads.rxPc = "idle"
  /\ sender_' = FALSE
  /\ receiver_' = FALSE
  /\ running_' = FALSE
  /\ subscribed_' = FALSE
  /\ threads' = [threads EXCEPT !.ctlPc = "idle"]
  /\ lastOp' = Op("stop.close", "", "stopped")
  /\ lastEvents' = <<Ev("closeSender", NoHandle, "", <<>>),
                     Ev("closeReceiver", NoHandle, "", <<>>),
                     Ev("actorStop", NoHandle, "", <<>>)>>
  /\ UNCHANGED <<host_, localPort_, deviceCallback_, addSeen, addOk, cbTrue, cbOpen, lastCleared,
                 shown,
                 nextDevicePort_, devices_, listenerActorPath_, router, heap>>

\* handleDeviceAdd: the lookup under the lock
RxAddCheck ==
  /\ receiver_
  /\ threads.rxPc = "idle"
  /\ LockFree
  /\ nextDevicePort_ < kFirstDevicePort + MaxPortAdvance
  /\ \E m \in ThreadAddMsgs :
       IF alreadyRegistered(devices_, m[1])
       THEN /\ UNCHANGED threads
            /\ lastOp' = Op("add.check", m[1], "duplicate")
       ELSE /\ threads' = [threads EXCEPT !.rxPc = "add.create", !.rxId = m[1],
                                          !.rxType = m[2], !.rxPort = m[3]]
            /\ lastOp' = Op("add.check", m[1], "new")
  /\ lastEvents' = <<>>
  /\ UNCHANGED <<ServiceFixed, nextDevicePort_, devices_, listenerActorPath_, router, heap>>

\* handleDeviceAdd: the info, createDevice and the listener read from the
\* service
RxAddCreate ==
  /\ threads.rxPc = "add.create"
  /\ LET info == parseType(MonomeDeviceInfo(threads.rxId, threads.rxType, threads.rxPort))
         created == createDevice(info)
         h == NewHandle(heap)
         dev == IF listenerActorPath_ # NoPath
                THEN Device_setListenerActor(created[1], listenerActorPath_)
                ELSE created[1]
     IN IF Len(created) = 0
        THEN /\ threads' = [threads EXCEPT !.rxPc = "idle", !.rxId = "",
                                           !.rxType = <<>>, !.rxPort = 0]
             /\ lastOp' = Op("add.create", threads.rxId, "unknown")
             /\ lastEvents' = <<>>
             /\ UNCHANGED heap
        ELSE /\ heap' = [x \in DOMAIN heap \cup {h} |-> IF x = h THEN dev ELSE heap[x]]
             /\ threads' = [threads EXCEPT !.rxPc = "add.connect", !.rxH = h]
             /\ lastOp' = Op("add.create", threads.rxId, "created")
             /\ lastEvents' = <<Ev("new", h, "", <<>>)>>
  /\ UNCHANGED <<ServiceFixed, nextDevicePort_, devices_, listenerActorPath_, router>>

\* handleDeviceAdd: the port, connect and registerActor; sOk: whether the
\* device's sender opens
RxAddConnect ==
  /\ threads.rxPc = "add.connect"
  /\ \E sOk \in BOOLEAN :
       LET h == threads.rxH
           deviceLocalPort == findAvailablePort(nextDevicePort_, OwnPorts)
           c == connect(heap[h], h, host_, deviceLocalPort, sOk, TRUE)
           given == [threads EXCEPT !.rxPc = "idle", !.rxId = "", !.rxType = <<>>,
                                    !.rxPort = 0, !.rxH = NoHandle]
       IN IF deviceLocalPort = 0
          THEN /\ heap' = [x \in DOMAIN heap \ {h} |-> heap[x]]
               /\ threads' = given
               /\ lastOp' = Op("add.connect", threads.rxId, "noport")
               /\ lastEvents' = Destroy(heap[h], h)
               /\ UNCHANGED <<nextDevicePort_, router>>
          ELSE IF ~c.ret
          THEN /\ nextDevicePort_' = deviceLocalPort + 1
               /\ heap' = [x \in DOMAIN heap \ {h} |-> heap[x]]
               /\ threads' = given
               /\ lastOp' = Op("add.connect", threads.rxId, "connectfail")
               /\ lastEvents' = c.evs \o Destroy(c.d, h)
               /\ UNCHANGED router
          ELSE /\ nextDevicePort_' = deviceLocalPort + 1
               /\ heap' = [heap EXCEPT ![h] = c.d]
               /\ router' = router \cup {h}
               /\ threads' = [threads EXCEPT !.rxPc = "add.store"]
               /\ lastOp' = Op("add.connect", threads.rxId, "connected")
               /\ lastEvents' = c.evs \o <<Ev("registerActor", h, "", <<>>)>>
  /\ UNCHANGED <<ServiceFixed, devices_, listenerActorPath_>>

\* handleDeviceAdd: devices_[idKey] = std::move(device) under the lock
RxAddStore ==
  /\ threads.rxPc = "add.store"
  /\ LockFree
  /\ LET replaced == find(devices_, threads.rxId)
     IN /\ devices_' = assign(devices_, threads.rxId, threads.rxH)
        /\ heap' = [x \in DOMAIN heap \ Handles(replaced) |-> heap[x]]
        /\ threads' = [threads EXCEPT !.rxPc = "add.notify",
                                      !.appDangling = Dangling(Handles(replaced))]
        /\ lastEvents' = <<Ev("store", threads.rxH, threads.rxId, <<>>)>>
                         \o DestroyAll(replaced, heap)
  /\ lastOp' = Op("add.store", threads.rxId, "")
  /\ UNCHANGED <<ServiceFixed, nextDevicePort_, listenerActorPath_, router>>

\* handleDeviceAdd: the callback and the message to the listener
RxAddNotify ==
  /\ threads.rxPc = "add.notify"
  /\ threads' = [threads EXCEPT !.rxPc = "idle", !.rxId = "", !.rxType = <<>>,
                                !.rxPort = 0, !.rxH = NoHandle]
  /\ lastOp' = Op("add.notify", threads.rxId, "added")
  /\ lastEvents' =
       notifyAdded(deviceCallback_, listenerActorPath_, threads.rxH,
                   parseType(MonomeDeviceInfo(threads.rxId, threads.rxType, threads.rxPort)),
                   threads.rxId)
  /\ UNCHANGED <<ServiceFixed, nextDevicePort_, devices_, listenerActorPath_, router, heap>>

\* handleDeviceRemove: the lock_guard
RxRemoveLock ==
  /\ receiver_
  /\ threads.rxPc = "idle"
  /\ LockFree
  /\ \E id \in ThreadRemoveIds :
       /\ threads' = [threads EXCEPT !.lock = "rx", !.rxPc = "rm.erase", !.rxId = id]
       /\ lastOp' = Op("remove.lock", id, "")
  /\ lastEvents' = <<>>
  /\ UNCHANGED <<ServiceFixed, nextDevicePort_, devices_, listenerActorPath_, router, heap>>

\* handleDeviceRemove: find, removeActor and erase inside the lock's scope;
\* the return for an unknown identity leaves the scope
RxRemoveErase ==
  /\ threads.rxPc = "rm.erase"
  /\ LET found == find(devices_, threads.rxId)
         e == CHOOSE x \in found : TRUE
     IN IF found = {}
        THEN /\ threads' = [threads EXCEPT !.lock = "", !.rxPc = "idle", !.rxId = ""]
             /\ lastOp' = Op("remove.erase", threads.rxId, "unknown")
             /\ lastEvents' = <<>>
             /\ UNCHANGED <<devices_, router, heap>>
        ELSE /\ router' = router \ {e.h}
             /\ devices_' = erase(devices_, threads.rxId)
             /\ heap' = [x \in DOMAIN heap \ {e.h} |-> heap[x]]
             /\ threads' = [threads EXCEPT !.rxPc = "rm.notify", !.rxH = e.h,
                                           !.rxType = heap[e.h].info.type,
                                           !.rxInfoId = heap[e.h].info.id,
                                           !.appDangling = Dangling({e.h})]
             /\ lastOp' = Op("remove.erase", threads.rxId, "removed")
             /\ lastEvents' =
                  <<Ev("removeActor", e.h, "", <<>>), Ev("erase", e.h, threads.rxId, <<>>)>>
                  \o Destroy(heap[e.h], e.h)
  /\ UNCHANGED <<ServiceFixed, nextDevicePort_, listenerActorPath_>>

\* handleDeviceRemove: the end of the lock's scope, the callback and the
\* message to the listener
RxRemoveNotify ==
  /\ threads.rxPc = "rm.notify"
  /\ threads' = [threads EXCEPT !.lock = "", !.rxPc = "idle", !.rxId = "",
                                !.rxType = <<>>, !.rxH = NoHandle, !.rxInfoId = ""]
  /\ lastOp' = Op("remove.notify", threads.rxId, "removed")
  /\ lastEvents' =
       notifyRemoved(deviceCallback_, listenerActorPath_, threads.rxH,
                     [id |-> threads.rxInfoId], threads.rxId)
  /\ UNCHANGED <<ServiceFixed, nextDevicePort_, devices_, listenerActorPath_, router, heap>>

\* the application looks a device up and keeps the pointer it is given
AppLookup ==
  /\ threads.appPc = "idle"
  /\ LockFree
  /\ \E f \in Lookups, id \in LookupIds :
       LET device == CASE f = "getDevice" -> getDevice(id)
                       [] f = "getGrid" -> getGrid(id)
                       [] f = "getArc" -> getArc(id)
                       [] f = "getFirstGrid" -> getFirstGrid
                       [] f = "getFirstArc" -> getFirstArc
       IN /\ threads' = [threads EXCEPT
                           !.appPc = IF device = NoHandle THEN "idle" ELSE "have",
                           !.appHeld = device, !.appDangling = FALSE]
          /\ lastOp' = Op(f, id, IF device = NoHandle THEN "nullptr" ELSE "found")
  /\ lastEvents' = <<>>
  /\ UNCHANGED <<ServiceFixed, nextDevicePort_, devices_, listenerActorPath_, router, heap>>

\* what the application does with a device: a write to its buffer and a flush
UseDevice(d, h) ==
  IF d.class = "MonomeGrid"
  THEN flushLedBuffer([d EXCEPT !.ledBuffer_ = Grid_setLevel(@, 0, 0, kMaxLevel)], h)
  ELSE flushRingBuffers([d EXCEPT !.ringBuffers_[0] = Ring_setLevel(@, 0, kMaxLevel)], h)

\* the application uses the pointer it holds; through a pointer to a destroyed
\* device the write and the flush reach freed memory, which this step records
\* and does not follow further
AppUse ==
  /\ threads.appPc = "have"
  /\ LET h == threads.appHeld
     IN IF threads.appDangling
        THEN /\ lastOp' = Op("use", h, "dangling")
             /\ lastEvents' = <<>>
             /\ UNCHANGED heap
        ELSE LET r == UseDevice(heap[h], h)
             IN /\ heap' = [heap EXCEPT ![h] = r.d]
                /\ lastOp' = Op("use", h, "live")
                /\ lastEvents' = r.evs
  /\ threads' = [threads EXCEPT !.appPc = "idle", !.appHeld = NoHandle,
                                !.appDangling = FALSE]
  /\ UNCHANGED <<ServiceFixed, nextDevicePort_, devices_, listenerActorPath_, router>>

\* setListenerActor: the store to listenerActorPath_, before the lock
AppSetListenerStore ==
  /\ threads.appPc = "idle"
  /\ \E actorPath \in ListenerPaths :
       /\ listenerActorPath_' = actorPath
       /\ threads' = [threads EXCEPT !.appPc = "listener.update", !.appArg = actorPath]
       /\ lastOp' = Op("setListenerActor.store", actorPath, "")
  /\ lastEvents' = <<>>
  /\ UNCHANGED <<ServiceFixed, nextDevicePort_, devices_, router, heap>>

\* setListenerActor: the loop over the registry under the lock
AppSetListenerUpdate ==
  /\ threads.appPc = "listener.update"
  /\ LockFree
  /\ heap' = [h \in DOMAIN heap |->
                IF h \in Handles(devices_)
                THEN Device_setListenerActor(heap[h], threads.appArg) ELSE heap[h]]
  /\ threads' = [threads EXCEPT !.appPc = "idle", !.appArg = NoPath]
  /\ lastOp' = Op("setListenerActor.update", threads.appArg, "")
  /\ lastEvents' = <<>>
  /\ UNCHANGED <<ServiceFixed, nextDevicePort_, devices_, listenerActorPath_, router>>

NextThreads ==
  \/ CtlStart
  \/ CtlStopLock
  \/ CtlStopClear
  \/ CtlStopUnlock
  \/ CtlStopClose
  \/ RxAddCheck
  \/ RxAddCreate
  \/ RxAddConnect
  \/ RxAddStore
  \/ RxAddNotify
  \/ RxRemoveLock
  \/ RxRemoveErase
  \/ RxRemoveNotify
  \/ AppLookup
  \/ AppUse
  \/ AppSetListenerStore
  \/ AppSetListenerUpdate

SpecThreads == InitThreads /\ [][NextThreads]_vars

(***************************************************************************)
(* SpecShown: the buffer of a connected grid (handle 1) is written and     *)
(* flushed and the grid reports its size; the LEDs the commands sent to    *)
(* the grid have lit are recorded in shown                                 *)
(***************************************************************************)
ShownCells == {<<0, 0>>, <<9, 1>>}
ShownLevels == {0, 7, kMaxLevel}
ShownSizes == {<<8, 8>>, <<16, 16>>}

\* the LEDs of grid h after it has received /grid/led/level/map with the
\* offsets and the 64 levels: the 8x8 block at the offsets shows the levels
LevelMapShown(sh, h, xOffset, yOffset, levels) ==
  {t \in sh : ~(/\ t[1] = h
                /\ t[2] \in xOffset..(xOffset + kQuadrantSize - 1)
                /\ t[3] \in yOffset..(yOffset + kQuadrantSize - 1))}
  \cup {<<h, xOffset + ((k - 1) % kQuadrantSize), yOffset + ((k - 1) \div kQuadrantSize),
          levels[k]>> : k \in {i \in DOMAIN levels : levels[i] > 0}}

RECURSIVE Received(_, _)
\* the LEDs after the grids have received the commands among the events
Received(sh, evs) ==
  IF evs = <<>> THEN sh
  ELSE LET e == Head(evs)
           sh2 == IF e.ev = "send" /\ e.addr = "/grid/led/level/map"
                  THEN LevelMapShown(sh, e.h, e.args[2], e.args[3], e.args[4])
                  ELSE sh
       IN Received(sh2, Tail(evs))

\* the level grid h shows at a cell
ShownLevel(h, x, y) ==
  IF \E t \in shown : t[1] = h /\ t[2] = x /\ t[3] = y
  THEN (CHOOSE t \in shown : t[1] = h /\ t[2] = x /\ t[3] = y)[4]
  ELSE 0

InitShown == InitCells /\ IsGridUnderStudy

ShownSetLevel ==
  \E c \in ShownCells, level \in ShownLevels :
    CellWrite("setLevel", Grid_setLevel(TheGrid, c[1], c[2], level), {c}, level)

\* flushLedBuffer() on the connected grid; the grid receives what is sent
ShownFlush ==
  LET r == flushLedBuffer(heap[TheDevice], TheDevice)
  IN /\ heap[TheDevice].connected_
     /\ heap' = [heap EXCEPT ![TheDevice] = r.d]
     /\ lastCleared' = [lastCleared EXCEPT ![TheDevice] = TheGrid.levels_]
     /\ shown' = Received(shown, r.evs)
     /\ UNCHANGED threads
     /\ lastOp' = Op("flushLedBuffer", "grid", "")
     /\ lastEvents' = r.evs
     /\ UNCHANGED svcVars

ShownSizeReport == \E sz \in ShownSizes : DeviceSys(TheDevice, <<"sys", "size">>, sz)

NextShown ==
  \/ ShownSetLevel
  \/ ShownFlush
  \/ ShownSizeReport

SpecShown == InitShown /\ [][NextShown]_vars

(***************************************************************************)
(* SpecDirty: the application writes the LED buffer of a grid or ring 0 of *)
(* an arc (handle 1) and calls clearDirty on it; lastCleared records the   *)
(* levels at the last clearDirty                                           *)
(***************************************************************************)
DirtyCells == {<<0, 0>>, <<9, 1>>, <<16, 8>>}
DirtyLevels == {7, 20}
DirtyFills == {0, 5}
DirtyRects == {<<7, 7, 2, 2>>}
DirtyLeds == {0, 63, 64}
DirtyRanges == {<<60, 1>>}
DirtyPositions == {-1}
DirtyFalloffs == {1}
DirtyNormRanges == {<<PosUnit - 4, 2>>}

InitDirty == InitCells

\* a call on the grid's buffer or on ring 0; d2 is the device after the call
DirtyCall(name, d2) ==
  /\ heap' = [heap EXCEPT ![TheDevice] = d2]
  /\ lastOp' = Op(name, "", "")
  /\ lastEvents' = <<>>
  /\ UNCHANGED <<svcVars, bufVars>>

DirtyGridCall(name, b2) ==
  /\ IsGridUnderStudy
  /\ DirtyCall(name, [heap[TheDevice] EXCEPT !.ledBuffer_ = b2])

DirtyRingCall(name, b2) ==
  /\ IsArcUnderStudy
  /\ DirtyCall(name, [heap[TheDevice] EXCEPT !.ringBuffers_[0] = b2])

DirtyGridSetLevel ==
  \E c \in DirtyCells, level \in DirtyLevels :
    DirtyGridCall("setLevel", Grid_setLevel(TheGrid, c[1], c[2], level))

DirtyGridFill ==
  \E level \in DirtyFills : DirtyGridCall("fill", Grid_fill(TheGrid, level))

DirtyGridFillRect ==
  \E r \in DirtyRects, level \in DirtyFills :
    DirtyGridCall("fillRect", Grid_fillRect(TheGrid, r[1], r[2], r[3], r[4], level))

DirtyGridSet ==
  \E c \in DirtyCells, on \in BOOLEAN :
    DirtyGridCall("set", Grid_set(TheGrid, c[1], c[2], on))

DirtyGridToggle ==
  \E c \in DirtyCells : DirtyGridCall("toggle", Grid_toggle(TheGrid, c[1], c[2]))

DirtyGridClear == DirtyGridCall("clear", Grid_clear(TheGrid))

DirtyGridClearDirty ==
  /\ IsGridUnderStudy
  /\ heap' = [heap EXCEPT ![TheDevice].ledBuffer_ = Grid_clearDirty(@)]
  /\ lastCleared' = [lastCleared EXCEPT ![TheDevice] = TheGrid.levels_]
  /\ lastOp' = Op("clearDirty", "", "")
  /\ lastEvents' = <<>>
  /\ UNCHANGED <<svcVars, threads, shown>>

DirtyRingSetLevel ==
  \E led \in DirtyLeds, level \in DirtyLevels :
    DirtyRingCall("ring.setLevel", Ring_setLevel(TheRing, led, level))

DirtyRingFill ==
  \E level \in DirtyFills : DirtyRingCall("ring.fill", Ring_fill(TheRing, level))

DirtyRingFillRange ==
  \E r \in DirtyRanges, level \in DirtyFills :
    DirtyRingCall("ring.fillRange", fillRange(TheRing, r[1], r[2], level))

DirtyRingSetPosition ==
  \E pos \in DirtyPositions, falloff \in DirtyFalloffs :
    DirtyRingCall("ring.setPosition", setPosition(TheRing, pos, kMaxLevel, falloff))

DirtyRingSetRange ==
  \E r \in DirtyNormRanges, level \in DirtyFills :
    DirtyRingCall("ring.setRange", setRange(TheRing, r[1], r[2], level))

DirtyRingClear == DirtyRingCall("ring.clear", Ring_clear(TheRing))

DirtyRingClearDirty ==
  /\ IsArcUnderStudy
  /\ heap' = [heap EXCEPT ![TheDevice].ringBuffers_[0] = Ring_clearDirty(@)]
  /\ lastCleared' = [lastCleared EXCEPT ![TheDevice] = TheRing.levels_]
  /\ lastOp' = Op("ring.clearDirty", "", "")
  /\ lastEvents' = <<>>
  /\ UNCHANGED <<svcVars, threads, shown>>

NextDirty ==
  \/ DirtyGridSetLevel
  \/ DirtyGridFill
  \/ DirtyGridFillRect
  \/ DirtyGridSet
  \/ DirtyGridToggle
  \/ DirtyGridClear
  \/ DirtyGridClearDirty
  \/ DirtyRingSetLevel
  \/ DirtyRingFill
  \/ DirtyRingFillRange
  \/ DirtyRingSetPosition
  \/ DirtyRingSetRange
  \/ DirtyRingClear
  \/ DirtyRingClearDirty

SpecDirty == InitDirty /\ [][NextDirty]_vars

(***************************************************************************)
(* SpecCallbacks: the application installs its device callback, then       *)
(* starts and stops the service while the daemon sends add and remove      *)
(* messages                                                                *)
(***************************************************************************)
CbInstall == lastOp.op = "init" /\ setDeviceCallback(TRUE)

CbStart == deviceCallback_ /\ AppStart

CbStop == deviceCallback_ /\ AppStop

CbDaemonMessage == deviceCallback_ /\ DaemonMessage

NextCallbacks ==
  \/ CbInstall
  \/ CbStart
  \/ CbStop
  \/ CbDaemonMessage

SpecCallbacks == Init /\ [][NextCallbacks]_vars

(***************************************************************************)
(* SpecSize: a connected grid (handle 1) reports sizes, some with a zero   *)
(* or negative dimension, while the application writes and flushes         *)
(***************************************************************************)
SizeReports == {<<8, 8>>, <<0, 8>>, <<8, 0>>, <<-1, -1>>, <<kMaxWidth, kMaxHeight>>}

\* MonomeGrid::getWidth and MonomeGrid::getHeight
Grid_getWidth(d) == IF d.info.width > 0 THEN d.info.width ELSE kDefaultGridWidth
Grid_getHeight(d) == IF d.info.height > 0 THEN d.info.height ELSE kDefaultGridHeight

InitSize == InitCells /\ IsGridUnderStudy

SizeReport == \E sz \in SizeReports : DeviceSys(TheDevice, <<"sys", "size">>, sz)

NextSize ==
  \/ SizeReport
  \/ CellSetLevel
  \/ GridFlush

SpecSize == InitSize /\ [][NextSize]_vars

(***************************************************************************)
(* Properties of the service (SpecService)                                 *)
(***************************************************************************)
\* positions of the events of a kind
PosEv(evs, kind) == {i \in 1..Len(evs) : evs[i].ev = kind}

UniqueKeys == \A e1 \in devices_, e2 \in devices_ : e1.key = e2.key => e1 = e2

\* C1, as stated: once a device/add message for an identity has been handled
\* (no remove, no stop() since) the registry holds exactly one entry for it,
\* the (id, true) callback ran at most once, and an add for a registered
\* identity has no effect.
C1_ExactlyOneEntry ==
  /\ \A id \in addSeen :
       Cardinality(find(devices_, id)) = 1 /\ cbTrue[id] <= 1
  /\ (lastOp.op = "add" /\ lastOp.outcome = "duplicate") => lastEvents = <<>>

\* C1, amended: over device/add messages for one identity with no remove and
\* no stop() in between, the registry holds at most one entry for the
\* identity, exactly one once one of the adds has succeeded, and the
\* (id, true) callback runs at most once; an add for a registered identity
\* creates no device, scans and allocates no port, invokes no callback,
\* publishes no notification and changes no state of the program.
C1_AtMostOneEntry ==
  /\ [](\A id \in Ids :
          /\ Cardinality(find(devices_, id)) <= 1
          /\ id \in addOk => Cardinality(find(devices_, id)) = 1
          /\ cbTrue[id] <= 1)
  /\ [][(lastOp'.op = "add" /\ find(devices_, lastOp'.id) # {})
          => /\ lastEvents' = <<>>
             /\ lastOp'.scan = "n/a"
             /\ UNCHANGED progVars]_vars

\* a second add for a registered identity whose callback ran once
C1_Witness ==
  /\ lastOp.op = "add"
  /\ lastOp.outcome = "duplicate"
  /\ Cardinality(find(devices_, lastOp.id)) = 1
  /\ cbTrue[lastOp.id] = 1

\* C2, as stated: no two entries share an identity, and an identity is in the
\* registry iff a device/add message for it has been handled with no remove
\* for it and no stop() since.
C2_InRegistryIffAddReceived ==
  /\ UniqueKeys
  /\ \A id \in Ids : id \in Keys(devices_) <=> id \in addSeen

\* C2, amended: no two entries share an identity, and an identity is in the
\* registry iff a device/add message for it has been handled successfully
\* (known type, free port found, connect succeeded) with no remove for it and
\* no stop() since.
C2_InRegistryIffAddSucceeded ==
  /\ UniqueKeys
  /\ \A id \in Ids : id \in Keys(devices_) <=> id \in addOk

\* one identity has just been removed while another one stays registered
C2_Witness ==
  /\ lastOp.op = "remove"
  /\ lastOp.outcome = "removed"
  /\ lastOp.id \notin Keys(devices_)
  /\ devices_ # {}

\* C3: a remove for a registered identity takes the device off the router,
\* erases its entry, then invokes the callback (when one is set) exactly once
\* with (info, false), then publishes one serialosc/device/remove notification
\* when a listener is set; a remove for an identity that is not registered
\* changes no state and produces no callback and no notification.
C3_RemoveOrder ==
  [][lastOp'.op = "remove" =>
       LET id == lastOp'.id
           found == find(devices_, id)
           evs == lastEvents'
       IN IF found = {}
          THEN evs = <<>> /\ UNCHANGED progVars
          ELSE LET e == CHOOSE x \in found : TRUE
                   cbs == SelectEv(evs, "callback")
                   nts == SelectEv(evs, "notify")
               IN /\ CountEv(evs, "removeActor") = 1
                  /\ CountEv(evs, "erase") = 1
                  /\ FirstEv(evs, "removeActor") < FirstEv(evs, "erase")
                  /\ e.h \notin router'
                  /\ find(devices_', id) = {}
                  /\ Len(cbs) = (IF deviceCallback_ THEN 1 ELSE 0)
                  /\ \A i \in 1..Len(cbs) :
                       /\ cbs[i].addr = heap[e.h].info.id
                       /\ cbs[i].args = <<FALSE>>
                  /\ \A i \in PosEv(evs, "callback") : FirstEv(evs, "erase") < i
                  /\ Len(nts) = (IF listenerActorPath_ # NoPath THEN 1 ELSE 0)
                  /\ \A i \in 1..Len(nts) :
                       /\ nts[i].addr = "serialosc/device/remove"
                       /\ nts[i].args = <<id>>
                  /\ \A i \in PosEv(evs, "notify") :
                       /\ FirstEv(evs, "erase") < i
                       /\ \A j \in PosEv(evs, "callback") : j < i]_vars

\* a registered device has been removed with a callback and a listener set
C3_Witness ==
  /\ lastOp.op = "remove"
  /\ lastOp.outcome = "removed"
  /\ CountEv(lastEvents, "callback") = 1
  /\ CountEv(lastEvents, "notify") = 1

\* C4: stop() on a running service leaves the registry empty, every device
\* that was registered destroyed, both daemon sockets closed, running_ and
\* subscribed_ false, and invokes no device callback; stop() on a service
\* that is not running changes nothing.
C4_StopTearsDown ==
  [][lastOp'.op = "stop" =>
       IF running_
       THEN /\ devices_' = {}
            /\ \A h \in Handles(devices_) :
                 /\ h \notin DOMAIN heap'
                 /\ \E i \in PosEv(lastEvents', "destroy") : lastEvents'[i].h = h
            /\ ~sender_' /\ ~receiver_'
            /\ \E i \in PosEv(lastEvents', "closeSender") : lastEvents'[i].h = NoHandle
            /\ \E i \in PosEv(lastEvents', "closeReceiver") : lastEvents'[i].h = NoHandle
            /\ ~running_' /\ ~subscribed_'
            /\ CountEv(lastEvents', "callback") = 0
       ELSE lastEvents' = <<>> /\ UNCHANGED progVars]_vars

\* a running service with a callback set has been stopped and its devices destroyed
C4_Witness ==
  /\ lastOp.op = "stop"
  /\ lastOp.outcome = "stopped"
  /\ deviceCallback_
  /\ CountEv(lastEvents, "destroy") >= 1

\* the add just handled failed: its type string classifies as Unknown, or the
\* scan found no free port, or a socket of the device did not open
AddFailed(op) ==
  \/ parseType(MonomeDeviceInfo(op.id, op.type, 0)).deviceType = "Unknown"
  \/ op.scan = "none"
  \/ op.sock \in {"sender", "receiver"}

\* C5: when the add of an identity that is not registered fails (Unknown
\* type, no free port, connect() fails) nothing is stored in the registry,
\* nothing is registered with the router, no callback runs, no notification
\* is published, and the device is not created or connected a second time.
C5_FailedAddLeavesNoTrace ==
  [][(lastOp'.op = "add" /\ find(devices_, lastOp'.id) = {} /\ AddFailed(lastOp'))
       => /\ devices_' = devices_
          /\ router' = router
          /\ heap' = heap
          /\ CountEv(lastEvents', "store") = 0
          /\ CountEv(lastEvents', "registerActor") = 0
          /\ CountEv(lastEvents', "callback") = 0
          /\ CountEv(lastEvents', "notify") = 0
          /\ CountEv(lastEvents', "new") <= 1
          /\ CountEv(lastEvents', "openSender") <= 1
          /\ CountEv(lastEvents', "openReceiver") <= 1]_vars

\* a connect() has failed while a callback and a listener were set
C5_Witness ==
  /\ lastOp.op = "add"
  /\ lastOp.sock \in {"sender", "receiver"}
  /\ deviceCallback_
  /\ listenerActorPath_ # NoPath
  /\ lastOp.id \notin Keys(devices_)

(***************************************************************************)
(* Properties of a device (SpecDevice)                                     *)
(***************************************************************************)
HandshakeAddrs == <<"/sys/host", "/sys/port", "/sys/prefix", "/sys/info">>

\* C6: connect() on a disconnected device whose two sockets open sends
\* exactly /sys/host, /sys/port, /sys/prefix (with the prefix the device had)
\* and /sys/info, in that order, and sets the connected flag only after the
\* four are sent; connect() on a connected device returns success, sends
\* nothing and changes no state.
C6_ConnectHandshake ==
  [][lastOp'.op = "connect" =>
       LET d == heap[TheDevice]
           d2 == heap'[TheDevice]
           evs == lastEvents'
           sends == SelectEv(evs, "send")
       IN /\ d.connected_ => (lastOp'.outcome = TRUE /\ evs = <<>> /\ d2 = d)
          /\ (~d.connected_ /\ lastOp'.sOk /\ lastOp'.rOk) =>
               /\ lastOp'.outcome = TRUE
               /\ [i \in 1..Len(sends) |-> sends[i].addr] = HandshakeAddrs
               /\ sends[1].args = <<lastOp'.host>>
               /\ sends[2].args = <<lastOp'.port>>
               /\ sends[3].args = <<d.prefix_>>
               /\ sends[4].args = <<lastOp'.host, lastOp'.port>>
               /\ CountEv(evs, "connected") = 1
               /\ \A i \in PosEv(evs, "send") : i < FirstEv(evs, "connected")
               /\ d2.connected_]_vars

\* a disconnected device with a prefix of its own has been connected
C6_Witness ==
  /\ lastOp.op = "connect"
  /\ lastOp.sOk /\ lastOp.rOk
  /\ CountEv(lastEvents, "send") = 4
  /\ heap[TheDevice].connected_
  /\ heap[TheDevice].prefix_ # kDefaultMonomePrefix

\* C7: when the send socket or the receive socket does not open, connect()
\* returns failure, the device is not connected, both sockets are closed, no
\* handshake command has been sent, and the state of the device is the one
\* it had before the call.
C7_FailedConnectKeepsState ==
  [][(lastOp'.op = "connect" /\ ~heap[TheDevice].connected_
        /\ (~lastOp'.sOk \/ ~lastOp'.rOk))
       => /\ lastOp'.outcome = FALSE
          /\ ~heap'[TheDevice].connected_
          /\ ~heap'[TheDevice].senderOpen
          /\ ~heap'[TheDevice].receiverOpen
          /\ CountEv(lastEvents', "send") = 0
          /\ heap'[TheDevice] = heap[TheDevice]]_vars

(***************************************************************************)
(* Properties of the buffers (SpecBuffer)                                  *)
(***************************************************************************)
Quadrants == (0..1) \X (0..1)

\* the cell of a storage slot
SlotCell(i) == <<i % kMaxWidth, i \div kMaxWidth>>

\* the cells of the buffer in quadrant q whose level differs from the level
\* they had at the last flush
ChangedCells(b, flushed, q) ==
  {c \in {SlotCell(i) : i \in DOMAIN b.levels_ \cup DOMAIN flushed} :
     /\ InRange(b, c)
     /\ QuadrantOf(c) = q
     /\ Level(b.levels_, GridIdx(c[1], c[2])) # Level(flushed, GridIdx(c[1], c[2]))}

\* C8, as stated: a quadrant's dirty bit is set iff some cell of the quadrant
\* differs from the value it had at the last flush (initially 0).
C8_DirtyIffChanged ==
  IsGridUnderStudy =>
    \A q \in Quadrants :
      isQuadrantDirty(TheGrid, q[1], q[2])
        <=> ChangedCells(TheGrid, lastCleared[TheDevice], q) # {}

\* C8, amended: whenever some cell of a quadrant differs from the value it
\* had at the last flush (initially 0), the quadrant's dirty bit is set. (A
\* set bit does not tell that a cell differs: a cell written and written back
\* leaves the bit set until the next flush.)
C8_ChangedImpliesDirty ==
  IsGridUnderStudy =>
    \A q \in Quadrants :
      ChangedCells(TheGrid, lastCleared[TheDevice], q) # {}
        => isQuadrantDirty(TheGrid, q[1], q[2])

\* after a flush a cell of quadrant (1, 0) has been changed, no cell of the
\* other quadrants
C8_Witness ==
  /\ IsGridUnderStudy
  /\ lastCleared[TheDevice] # NoLevels
  /\ ChangedCells(TheGrid, lastCleared[TheDevice], <<1, 0>>) # {}
  /\ isQuadrantDirty(TheGrid, 1, 0)
  /\ ~isQuadrantDirty(TheGrid, 0, 0)

GridWriteOps == {"setLevel", "fill", "fillRect", "set", "toggle", "clear"}
RingWriteOps == {"ring.setLevel", "ring.fill", "ring.fillRange"}

\* C9: a write to a grid or ring buffer (setLevel, and every cell fill,
\* fillRect and fillRange touch) whose clamped level equals the level of the
\* cell leaves the dirty state as it was, and a write in range whose clamped
\* level differs marks the quadrant of the cell, or the ring, dirty: after
\* the operation a quadrant (a ring) is dirty iff it was dirty before or the
\* operation touched one of its cells with a differing level.
C9_DirtyOnlyOnChange ==
  [][/\ lastOp'.op \in GridWriteOps =>
          \A q \in Quadrants :
            isQuadrantDirty(TheGrid', q[1], q[2])
              <=> (isQuadrantDirty(TheGrid, q[1], q[2]) \/ q \in lastOp'.outcome)
     /\ lastOp'.op \in RingWriteOps =>
          \A r \in 0..(kMaxEncoders - 1) :
            Ring_isDirty(heap'[TheDevice].ringBuffers_[r])
              <=> \/ Ring_isDirty(heap[TheDevice].ringBuffers_[r])
                  \/ (r = lastOp'.id /\ lastOp'.outcome)]_vars

\* a fill has touched differing cells in one quadrant only, the other
\* quadrants stay clean
C9_Witness ==
  /\ IsGridUnderStudy
  /\ lastOp.op = "fillRect"
  /\ lastOp.outcome # {}
  /\ \E q \in Quadrants : q \notin lastOp.outcome /\ ~isQuadrantDirty(TheGrid, q[1], q[2])

FlushOps == {"flushLedBuffer", "flushLedBufferBinary"}

\* the quadrant a map command addresses
Addressed(e) == <<e.args[2] \div kQuadrantSize, e.args[3] \div kQuadrantSize>>

\* the 64 levels of quadrant q, row-major
LevelsPayload(b, q) ==
  [k \in 1..64 |-> Grid_getLevel(b, 8 * q[1] + ((k - 1) % 8), 8 * q[2] + ((k - 1) \div 8))]

\* m holds the 8 row bitmasks of quadrant q: bit c of row r is set iff the
\* level of cell (8qx + c, 8qy + r) is greater than 0
IsBitmaskPayload(m, b, q) ==
  /\ DOMAIN m = 1..8
  /\ \A r \in 1..8 :
       /\ m[r] \in 0..255
       /\ \A c \in 0..7 :
            TestBit(m[r], c) <=> Grid_getLevel(b, 8 * q[1] + c, 8 * q[2] + (r - 1)) > 0

\* what C10 says of every flush but for the payload of the commands
FlushEmitsPerDirtyQuadrant(b, b2, evs) ==
  IF \A q \in Quadrants : ~isQuadrantDirty(b, q[1], q[2])
  THEN evs = <<>> /\ UNCHANGED progVars
  ELSE /\ \A i \in 1..Len(evs) :
            /\ evs[i].ev = "send"
            /\ evs[i].args[2] = 8 * Addressed(evs[i])[1]
            /\ evs[i].args[3] = 8 * Addressed(evs[i])[2]
       /\ \A q \in Quadrants :
            Cardinality({i \in 1..Len(evs) : Addressed(evs[i]) = q})
              = (IF isQuadrantDirty(b, q[1], q[2]) THEN 1 ELSE 0)
       /\ \A i \in 1..Len(evs) : Addressed(evs[i]) \in Quadrants
       /\ \A q \in Quadrants : ~isQuadrantDirty(b2, q[1], q[2])
       /\ b2.levels_ = b.levels_

\* C10, as stated: a grid flush emits exactly one map command per quadrant
\* that is dirty when it is called, at offsets (8qx, 8qy) and with the 64
\* levels of the quadrant in row-major order, none for a clean quadrant, and
\* clears the dirty bit of exactly the quadrants it emitted a command for;
\* with no dirty quadrant it emits nothing and changes nothing.
C10_FlushCarriesLevels ==
  [][lastOp'.op \in FlushOps =>
       /\ FlushEmitsPerDirtyQuadrant(TheGrid, TheGrid', lastEvents')
       /\ \A i \in 1..Len(lastEvents') :
            lastEvents'[i].args[4] = LevelsPayload(TheGrid, Addressed(lastEvents'[i]))]_vars

\* C10, amended: a grid flush emits exactly one map command per quadrant that
\* is dirty when it is called, at offsets (8qx, 8qy), none for a clean
\* quadrant, and clears the dirty bit of exactly the quadrants it emitted a
\* command for; with no dirty quadrant it emits nothing and changes nothing.
\* The command of flushLedBuffer and flushLedBufferLevels is
\* /grid/led/level/map with the 64 levels of the quadrant in row-major
\* order; the command of flushLedBufferBinary is /grid/led/map with the 8 row
\* bitmasks of the quadrant (bit c of row r set iff the level is above 0).
C10_FlushPerDirtyQuadrant ==
  [][lastOp'.op \in FlushOps =>
       /\ FlushEmitsPerDirtyQuadrant(TheGrid, TheGrid', lastEvents')
       /\ \A i \in 1..Len(lastEvents') :
            LET e == lastEvents'[i]
            IN IF lastOp'.op = "flushLedBufferBinary"
               THEN /\ e.addr = "/grid/led/map"
                    /\ IsBitmaskPayload(e.args[4], TheGrid, Addressed(e))
               ELSE /\ e.addr = "/grid/led/level/map"
                    /\ e.args[4] = LevelsPayload(TheGrid, Addressed(e))]_vars

\* a flush of a buffer with two dirty quadrants and a clean one has sent two
\* commands with levels
C10_Witness ==
  /\ IsGridUnderStudy
  /\ lastOp.op = "flushLedBuffer"
  /\ Len(lastEvents) = 2
  /\ TheGrid.height_ = 16
  /\ TheGrid.levels_ # NoLevels

ArcRings == 0..(kMaxEncoders - 1)
TheRings == heap[TheDevice].ringBuffers_
\* the rings flushRingBuffers passes to flushRingBuffer and that exist
CoveredRings == {r \in ArcRings : r < getEncoderCount(heap[TheDevice])}

\* C11: flush is idempotent for grid and arc: right after a flush the buffer
\* it flushed is not dirty, and a second flush of that buffer with no write in
\* between emits no command.
C11_FlushIdempotent ==
  [][/\ lastOp'.op \in FlushOps =>
          /\ ~Grid_isDirty(TheGrid')
          /\ lastOp.op \in FlushOps => lastEvents' = <<>>
     /\ lastOp'.op = "flushRingBuffer" =>
          /\ lastOp'.id \in ArcRings => ~Ring_isDirty(TheRings'[lastOp'.id])
          /\ (lastOp.op = "flushRingBuffer" /\ lastOp.id = lastOp'.id)
               => lastEvents' = <<>>
          /\ (lastOp.op = "flushRingBuffers" /\ lastOp'.id \in CoveredRings)
               => lastEvents' = <<>>
     /\ lastOp'.op = "flushRingBuffers" =>
          /\ \A r \in CoveredRings : ~Ring_isDirty(TheRings'[r])
          /\ lastOp.op = "flushRingBuffers" => lastEvents' = <<>>]_vars

\* a flush that sent a command has been followed by a second flush
C11_Witness ==
  /\ IsArcUnderStudy
  /\ lastOp.op = "flushRingBuffers"
  /\ lastEvents = <<>>
  /\ \E r \in CoveredRings : TheRings[r].levels_ # NoLevels

\* C12: after flushRingBuffers() every ring buffer that was dirty has been
\* sent as exactly one ring/map command with its 64 levels and no ring buffer
\* of the device is dirty, whatever the encoder count and whichever ring the
\* application wrote through getRingBuffer(ring).
C12_FlushAllLeavesNoRingDirty ==
  [][lastOp'.op = "flushRingBuffers" =>
       \A r \in ArcRings :
         /\ ~Ring_isDirty(TheRings'[r])
         /\ Cardinality({i \in 1..Len(lastEvents') :
                           /\ lastEvents'[i].addr = "/ring/map"
                           /\ lastEvents'[i].args[2] = r
                           /\ lastEvents'[i].args[3] = getAllLevels(TheRings[r])})
              = (IF Ring_isDirty(TheRings[r]) THEN 1 ELSE 0)]_vars

\* the events of the device with handle h in a trace
OfDevice(evs, h) == {i \in 1..Len(evs) : evs[i].h = h}
\* the commands that set every LED of the device to 0
IsClearAll(e, d) ==
  /\ e.ev = "send"
  /\ IF d.class = "MonomeGrid"
     THEN e.addr = "/grid/led/all" /\ e.args = <<AddrPrefix(d), 0>>
     ELSE e.addr = "/ring/all" /\ e.args[1] = AddrPrefix(d) /\ e.args[3] = 0
\* the devices the operation destroys
Destroyed == {e.h : e \in IF lastOp'.op = "stop" THEN devices_
                          ELSE find(devices_, lastOp'.id)}

InputEvents ==
  {<<"MonomeGrid", <<"grid", "key">>, "grid", "key", 3>>,
   <<"MonomeGrid", <<"tilt">>, "grid", "tilt", 4>>,
   <<"MonomeArc", <<"enc", "delta">>, "arc", "delta", 2>>,
   <<"MonomeArc", <<"enc", "key">>, "arc", "key", 2>>}
IsNumeric(a) == a.type \in {"kInt", "kFloat"}
\* the value of a numeric argument as the int the handler receives
ArgInt(a) == IF a.type = "kInt" THEN a.v[1] ELSE FloatToInt(a.v[1])
\* the message at the head of the queue is an input for event e of the device
IsInputFor(d, e) == d.class = e[1] /\ Head(d.queue).address = e[2]
WellFormed(args, e) == Len(args) = e[5] /\ \A i \in 1..Len(args) : IsNumeric(args[i])
\* the device after the actor took the message, with nothing else changed
Taken(d) == [d EXCEPT !.queue = Tail(@)]

\* C14: a well-formed input (grid key, grid tilt, arc delta, arc key) a device
\* processes while a listener is set produces exactly one message to that
\* listener, addressed <kind>/<device id>/<event> and carrying the decoded
\* values in order; with no listener it produces no message and changes no
\* device state.
C14_InputForwardedOnce ==
  [][lastOp'.op = "onMessage" =>
       LET d == heap[TheDevice]
           args == Head(d.queue).wire
       IN \A e \in InputEvents :
            (IsInputFor(d, e) /\ WellFormed(args, e)) =>
              /\ heap'[TheDevice] = Taken(d)
              /\ lastEvents' =
                   IF d.listenerActorPath_ # NoPath
                   THEN <<Ev("forward", TheDevice, d.listenerActorPath_,
                             <<(<<e[3], d.info.id, e[4]>>),
                               FloatArrayValue([i \in 1..e[5] |->
                                                  IntToFloat(ArgInt(args[i]))])>>)>>
                   ELSE <<>>]_vars

\* a tilt input has been forwarded to the listener
C14_Witness ==
  /\ lastOp.op = "onMessage"
  /\ lastEvents = <<Ev("forward", TheDevice, "app",
                       <<(<<"grid", "m1", "tilt">>),
                         FloatArrayValue(<<0, IntToFloat(-1), IntToFloat(2),
                                           IntToFloat(3)>>)>>)>>

\* C15: a device input with the wrong number of arguments or an argument of a
\* wrong type for its event is dropped: nothing is forwarded to the listener
\* and no state changes.
C15_MalformedDropped ==
  [][lastOp'.op = "onMessage" =>
       LET d == heap[TheDevice]
           args == Head(d.queue).wire
       IN \A e \in InputEvents :
            (IsInputFor(d, e) /\ ~WellFormed(args, e)) =>
              /\ heap'[TheDevice] = Taken(d)
              /\ lastEvents' = <<>>]_vars

\* every device of the registry has the listener of the service
ListenersAgree == \A e \in devices_ : heap[e.h].listenerActorPath_ = listenerActorPath_

\* C16: after setListenerActor(A) returns the listener of every device in the
\* registry is A, and every device added afterwards is created with listener
\* A: the service's listener is A until the next setListenerActor, and in
\* every state each registered device holds the service's listener.
C16_ListenerPropagated ==
  /\ []ListenersAgree
  /\ [][/\ lastOp'.op = "setListenerActor" =>
             /\ listenerActorPath_' = lastOp'.id
             /\ \A e \in devices_' : heap'[e.h].listenerActorPath_ = lastOp'.id
        /\ lastOp'.op # "setListenerActor" =>
             /\ listenerActorPath_' = listenerActorPath_
             /\ \A e \in devices_ :
                  e.h \in DOMAIN heap' =>
                    heap'[e.h].listenerActorPath_ = heap[e.h].listenerActorPath_]_vars

\* a second device has been added after setListenerActor("app")
C16_Witness ==
  /\ lastOp.op = "add"
  /\ lastOp.outcome = "added"
  /\ Cardinality(devices_) = Len(IdOrder)
  /\ \A e \in devices_ : heap[e.h].listenerActorPath_ \in ListenerPaths

NormalRotations == {0, 90, 180, 270}

\* C17: the rotation a device holds is one of 0, 90, 180, 270 in every
\* reachable state: after setRotation(r) for every integer r, negative
\* values included, and after an inbound /sys/rotation message.
C17_RotationNormalized == heap[TheDevice].rotation_ \in NormalRotations

Levels == 0..kMaxLevel
\* the level the writes are to store for the argument L
Limited(L) == IF L < 0 THEN 0 ELSE IF L > kMaxLevel THEN kMaxLevel ELSE L
StoredInRange(b) == \A k \in DOMAIN b.levels_ : b.levels_[k] \in Levels

\* C18: in every reachable state every cell of a grid buffer and every slot
\* of a ring buffer holds a level in 0..15; setLevel, fill, fillRect and
\* fillRange store clamp(L, 0, 15) for every integer level L.
C18_LevelsClamped ==
  /\ [](IsGridUnderStudy => StoredInRange(TheGrid))
  /\ [](IsArcUnderStudy => \A r \in ArcRings : StoredInRange(TheRings[r]))
  /\ [][/\ lastOp'.op \in {"setLevel", "fill", "fillRect"} =>
             \A c \in lastOp'.cells :
               InRange(TheGrid, c) =>
                 Grid_getLevel(TheGrid', c[1], c[2]) = Limited(lastOp'.level)
        /\ lastOp'.op \in {"ring.setLevel", "ring.fill", "ring.fillRange"} =>
             \A i \in lastOp'.cells :
               i \in 0..(kLedCount - 1) =>
                 Ring_getLevel(TheRings'[lastOp'.id], i) = Limited(lastOp'.level)]_vars

\* a write with a level above 15 and a write with a level below 0 have
\* stored 15 and 0
C18_Witness ==
  /\ IsGridUnderStudy
  /\ lastOp.op = "setLevel"
  /\ lastOp.level < 0
  /\ \E k \in DOMAIN TheGrid.levels_ : TheGrid.levels_[k] = kMaxLevel
  /\ \A c \in lastOp.cells : InRange(TheGrid, c) /\ Grid_getLevel(TheGrid, c[1], c[2]) = 0

\* C19: changing the level of the single cell (x, y) of a grid buffer sets
\* the dirty bit of quadrant (x div 8, y div 8) and leaves the dirty bits of
\* the other three quadrants and the levels of all other cells unchanged.
C19_SingleCellChange ==
  [][lastOp'.op = "setLevel" =>
       \A c \in lastOp'.cells :
         (InRange(TheGrid, c)
            /\ Grid_getLevel(TheGrid', c[1], c[2]) # Grid_getLevel(TheGrid, c[1], c[2]))
         => /\ isQuadrantDirty(TheGrid', c[1] \div kQuadrantSize, c[2] \div kQuadrantSize)
            /\ \A q \in Quadrants \ {QuadrantOf(c)} :
                 isQuadrantDirty(TheGrid', q[1], q[2]) = isQuadrantDirty(TheGrid, q[1], q[2])
            /\ \A p \in AllCells \ {c} :
                 Grid_getLevel(TheGrid', p[1], p[2]) = Grid_getLevel(TheGrid, p[1], p[2])]_vars

\* coordinates outside the buffer b and indices outside a ring
OutsideCells(b) ==
  {<<-1, 0>>, <<0, -1>>, <<b.width_, 0>>, <<0, b.height_>>, <<kMaxWidth, kQuadrantSize>>}
OutsideLeds == {-1, kLedCount}

\* C20: for grid and ring buffers getLevel at a coordinate or index outside
\* the buffer returns 0, and setLevel at a coordinate or index outside the
\* buffer leaves every level and every dirty flag unchanged.
C20_OutsideIgnored ==
  /\ [](IsGridUnderStudy =>
          \A c \in OutsideCells(TheGrid) : Grid_getLevel(TheGrid, c[1], c[2]) = 0)
  /\ [](IsArcUnderStudy =>
          \A r \in ArcRings, i \in OutsideLeds : Ring_getLevel(TheRings[r], i) = 0)
  /\ [][/\ (lastOp'.op = "setLevel" /\ \A c \in lastOp'.cells : ~InRange(TheGrid, c))
             => (TheGrid'.levels_ = TheGrid.levels_
                   /\ TheGrid'.dirtyMask_ = TheGrid.dirtyMask_)
        /\ (lastOp'.op = "ring.setLevel"
              /\ lastOp'.cells \cap (0..(kLedCount - 1)) = {})
             => TheRings' = TheRings]_vars

\* setLevel outside a grid buffer that holds levels and has dirty quadrants
C20_Witness ==
  /\ IsGridUnderStudy
  /\ lastOp.op = "setLevel"
  /\ \A c \in lastOp.cells : ~InRange(TheGrid, c)
  /\ TheGrid.levels_ # NoLevels
  /\ TheGrid.dirtyMask_ # 0

(***************************************************************************)
(* Properties of the ring's drawing calls (SpecRing)                       *)
(***************************************************************************)
\* C21: fillRange(start, end, level), start and end reduced modulo 64, sets
\* exactly the slots of the inclusive circular interval from start to end
\* (wrapping from 63 to 0 when start > end) to clamp(level, 0, 15) and leaves
\* every other slot unchanged.
C21_FillRangeExact ==
  [][lastOp'.op = "fillRange" =>
       LET a == lastOp'.args
       IN \A i \in 0..(kLedCount - 1) :
            Ring_getLevel(TheRing', i) =
              IF i \in CircularInterval(a[1], a[2]) THEN Limited(a[3])
              ELSE Ring_getLevel(TheRing, i)]_vars

\* fillRange(60, 4, 10) has filled 60..63 and 0..4 of a ring that held 15
\* in slot 32 and nothing in slots 5 and 59
C21_Witness ==
  /\ lastOp.op = "fillRange"
  /\ lastOp.args = <<60, 4, 10>>
  /\ \A i \in {60, 63, 0, 4} : Ring_getLevel(TheRing, i) = 10
  /\ Ring_getLevel(TheRing, 32) = kMaxLevel
  /\ Ring_getLevel(TheRing, 5) = 0
  /\ Ring_getLevel(TheRing, 59) = 0

\* the LED index of position pos (a count of 1 / PosUnit steps): the whole
\* part of 64 times the fractional part of the position
LedOf(pos) == ((pos % PosUnit) * kLedCount) \div PosUnit
\* the circular distance between two slots of the ring
CircularDistance(i, j) == Min((i - j) % kLedCount, (j - i) % kLedCount)
\* the level setPosition is to leave in slot i
TaperLevel(i, c, brightness, falloff) ==
  LET k == CircularDistance(i, c)
  IN IF k = 0 THEN Limited(brightness)
     ELSE IF k <= falloff
          THEN Limited((brightness * (falloff - k + 1)) \div (falloff + 2))
          ELSE 0

\* C23: after setPosition(p, brightness, falloff), for every falloff >= 0 and
\* with c the LED index derived from p, slot c holds clamp(brightness, 0, 15),
\* each slot at circular distance k (1 <= k <= falloff) from c holds
\* clamp(brightness*(falloff-k+1) div (falloff+2), 0, 15), and every other
\* slot holds 0.
C23_PositionTaper ==
  [][lastOp'.op = "setPosition" =>
       LET a == lastOp'.args
       IN a[3] >= 0 =>
            \A i \in 0..(kLedCount - 1) :
              Ring_getLevel(TheRing', i) = TaperLevel(i, LedOf(a[1]), a[2], a[3])]_vars

(***************************************************************************)
(* Properties of the quadrant extraction (SpecCells)                       *)
(***************************************************************************)
\* C22: for every quadrant (qx, qy) of a grid buffer and every row r and
\* column c in 0..7, entry r*8+c of getQuadrantLevels(qx, qy) equals
\* getLevel(8*qx+c, 8*qy+r) (0 for cells outside the buffer), and bit c of
\* row r of getQuadrantBitmask(qx, qy) is set iff that level is greater than 0.
C22_QuadrantExtraction ==
  IsGridUnderStudy =>
    \A q \in Quadrants :
      /\ getQuadrantLevels(TheGrid, q[1], q[2]) = LevelsPayload(TheGrid, q)
      /\ IsBitmaskPayload(getQuadrantBitmask(TheGrid, q[1], q[2]), TheGrid, q)

\* a 16x8 grid holds level 7 in cell (9, 1) only: entry 1*8+1 of quadrant
\* (1, 0) is 7, bit 1 of its row 1 is set, and quadrant (1, 1), outside the
\* buffer, reads 0 everywhere
C22_Witness ==
  /\ IsGridUnderStudy
  /\ TheGrid.height_ = kQuadrantSize
  /\ Grid_getLevel(TheGrid, 9, 1) = 7
  /\ Grid_getLevel(TheGrid, 0, 0) = 0
  /\ getQuadrantLevels(TheGrid, 1, 0)[10] = 7
  /\ getQuadrantBitmask(TheGrid, 1, 0)[2] = 2
  /\ \A k \in 1..64 : getQuadrantLevels(TheGrid, 1, 1)[k] = 0

(***************************************************************************)
(* Properties of parseType (SpecParse)                                     *)
(***************************************************************************)
Occurs(s, w, i) == i + Len(w) - 1 <= Len(s) /\ SubSeq(s, i, i + Len(w) - 1) = w
Contains(s, w) == \E i \in 1..Len(s) : Occurs(s, w, i)
FirstOf(s, w) ==
  CHOOSE i \in 1..Len(s) : Occurs(s, w, i) /\ \A k \in 1..(i - 1) : ~Occurs(s, w, k)
Digits == <<"0", "1", "2", "3", "4", "5", "6", "7", "8", "9">>
DigitOf(c) == (CHOOSE v \in 1..10 : Digits[v] = c) - 1
IsDigitAt(s, i) == i \in 1..Len(s) /\ \E v \in 1..10 : Digits[v] = s[i]

\* the decimal integer written in s after the first "arc", blanks skipped and
\* a sign allowed: [found |-> whether there is one, value |-> its value]
IntegerAfterArc(s) ==
  LET after == FirstOf(s, StrArc) + Len(StrArc)
      q == CHOOSE i \in after..(Len(s) + 1) :
             /\ i = Len(s) + 1 \/ s[i] # " "
             /\ \A k \in after..(i - 1) : s[k] = " "
      signed == q <= Len(s) /\ s[q] \in {"-", "+"}
      d == IF signed THEN q + 1 ELSE q
      last == CHOOSE i \in (d - 1)..Len(s) :
                /\ \A k \in d..i : IsDigitAt(s, k)
                /\ ~IsDigitAt(s, i + 1)
      RECURSIVE Value(_)
      Value(i) == IF i < d THEN 0 ELSE Value(i - 1) * 10 + DigitOf(s[i])
  IN [found |-> last >= d,
      value |-> IF signed /\ s[q] = "-" THEN 0 - Value(last) ELSE Value(last)]

\* C24: parseType classifies every type string: a string containing "arc"
\* yields kind Arc with encoderCount the integer after "arc " (4 when none
\* can be parsed); otherwise a string containing the grid marker yields kind
\* Grid with width and height 0; every other string yields kind Unknown with
\* all geometry 0.
C24_ParseTypeTotal ==
  [][lastOp'.op = "parseType" =>
       LET type == heap[TheDevice].info.type
           info == heap'[TheDevice].info
       IN /\ info.type = type
          /\ IF Contains(type, StrArc)
             THEN /\ info.deviceType = "Arc"
                  /\ info.encoderCount =
                       IF IntegerAfterArc(type).found THEN IntegerAfterArc(type).value
                       ELSE 4
             ELSE IF Contains(type, StrMonome)
                  THEN /\ info.deviceType = "Grid"
                       /\ info.width = 0 /\ info.height = 0
                  ELSE /\ info.deviceType = "Unknown"
                       /\ info.width = 0 /\ info.height = 0
                       /\ info.encoderCount = 0]_vars

\* "monome arc 2" has been classified as an arc with 2 encoders
C24_Witness ==
  /\ lastOp.op = "parseType"
  /\ heap[TheDevice].info.type = TypeArc2
  /\ heap[TheDevice].info.deviceType = "Arc"
  /\ heap[TheDevice].info.encoderCount = 2

(***************************************************************************)
(* Properties of start() (SpecService)                                     *)
(***************************************************************************)
\* the requests of an operation sent to the daemon at address addr
DaemonSends(evs, addr) ==
  SelectSeq(evs, LAMBDA e : e.ev = "send" /\ e.h = NoHandle /\ e.addr = addr)

\* C25: start() on a running service returns success, sends no request and
\* changes no state; a successful start() from the stopped state sends exactly
\* one /serialosc/list request and exactly one /serialosc/notify subscription,
\* each carrying the host and the local port the service has bound, and leaves
\* the service running.
C25_StartIdempotent ==
  [][lastOp'.op = "start" =>
       /\ running_ =>
            /\ lastOp'.outcome = "already"
            /\ lastEvents' = <<>>
            /\ progVars' = progVars
       /\ (~running_ /\ lastOp'.outcome = "started") =>
            /\ running_'
            /\ \E k \in 1..Len(lastEvents') :
                 lastEvents'[k] = Ev("openReceiver", NoHandle, "", <<localPort_'>>)
            /\ DaemonSends(lastEvents', "/serialosc/list")
                 = <<Ev("send", NoHandle, "/serialosc/list", <<host_', localPort_'>>)>>
            /\ DaemonSends(lastEvents', "/serialosc/notify")
                 = <<Ev("send", NoHandle, "/serialosc/notify", <<host_', localPort_'>>)>>
            /\ CountEv(lastEvents', "send") = 2]_vars

\* start() has been called on a running service that holds a device
C25_Witness ==
  /\ lastOp.op = "start"
  /\ lastOp.outcome = "already"
  /\ running_
  /\ devices_ # {}

(***************************************************************************)
(* Properties of the threads (SpecThreads)                                 *)
(***************************************************************************)
NetworkOps == {"send", "openSender", "openReceiver", "closeSender", "closeReceiver"}
\* the operation performed a UDP send or opened or closed a socket
DidNetwork(evs) == \E k \in 1..Len(evs) : evs[k].ev \in NetworkOps

\* the thread that runs the step of an operation
ThreadOfOp(op) ==
  IF op \in {"add.check", "add.create", "add.connect", "add.store", "add.notify",
             "remove.lock", "remove.erase", "remove.notify"} THEN "rx"
  ELSE IF op \in {"start", "stop.lock", "stop.clear", "stop.unlock", "stop.close"}
       THEN "ctl"
       ELSE "app"

\* C26: the registry lock is not held while a network operation (a UDP send
\* or a socket open/close) is performed: during a remove message and during
\* stop() the destruction of a device, which sends its LED-clear command and
\* closes its sockets, happens only after the lock has been released.
C26_NoNetworkUnderLock ==
  [][DidNetwork(lastEvents') =>
       threads.lock # ThreadOfOp(lastOp'.op) /\ threads'.lock # ThreadOfOp(lastOp'.op)]_vars

\* C28: a device the application thread got from getDevice, getGrid, getArc,
\* getFirstGrid or getFirstArc is not destroyed between the lookup and the
\* application's following use of it, under every interleaving with a remove
\* message for that device or a stop() on another thread.
C28_HeldDeviceAlive ==
  [][lastOp'.op = "use" => ~threads.appDangling]_vars

\* C29: whenever the service is not running the registry is empty and no
\* device is connected, under every interleaving of stop() with a device/add
\* message being handled on the receiver thread.
C29_StoppedMeansEmpty ==
  ~running_ => /\ devices_ = {}
               /\ \A h \in DOMAIN heap : ~heap[h].connected_

\* no thread is inside an operation of the service
Quiescent ==
  /\ threads.rxPc = "idle"
  /\ threads.appPc \in {"idle", "have"}
  /\ threads.ctlPc = "idle"

\* C30: under every interleaving of setListenerActor(A) on the application
\* thread with the creation of a device on the receiver thread, once both have
\* completed every device in the registry has listener A.
C30_ListenerAfterRace ==
  (Quiescent /\ listenerActorPath_ # NoPath) =>
    \A e \in devices_ : heap[e.h].listenerActorPath_ = listenerActorPath_

\* C27: an inbound message is only enqueued by the receiver thread; the state
\* changes it causes (property mirrors, replacement of the grid LED buffer,
\* registry add/remove) happen on the owning entity's own processing turn:
\* no step that runs on the receiver thread changes the registry.
C27_ReceiverOnlyEnqueues ==
  [][ThreadOfOp(lastOp'.op) = "rx" => devices_' = devices_]_vars

\* the first entry of the kind in a registry, in the order of the keys
FirstOfKind(reg, hp, kind) ==
  LET es == {e \in reg : getDeviceType(hp[e.h]) = kind}
  IN IF es = {} THEN NoHandle
     ELSE (CHOOSE e \in es : \A y \in es : IdRank(e.key) <= IdRank(y.key)).h

\* the events of a successful add are in the order connect, registerActor,
\* store, callback, notify, and after it a lookup of the identity gives the
\* new, connected device
AddInOrder ==
  LET id == lastOp'.id
      h == NewHandle(heap)
      evs == lastEvents'
  IN /\ CountEv(evs, "openSender") = 1
     /\ CountEv(evs, "openReceiver") = 1
     /\ CountEv(evs, "registerActor") = 1
     /\ CountEv(evs, "store") = 1
     /\ FirstEv(evs, "openSender") < FirstEv(evs, "registerActor")
     /\ FirstEv(evs, "openReceiver") < FirstEv(evs, "registerActor")
     /\ FirstEv(evs, "registerActor") < FirstEv(evs, "store")
     /\ evs[FirstEv(evs, "store")].h = h
     /\ CountEv(evs, "callback") = (IF deviceCallback_ THEN 1 ELSE 0)
     /\ CountEv(evs, "notify") = (IF listenerActorPath_ # NoPath THEN 1 ELSE 0)
     /\ \A i \in PosEv(evs, "callback") :
          /\ FirstEv(evs, "store") < i
          /\ evs[i].addr = id /\ evs[i].args = <<TRUE>>
     /\ \A i \in PosEv(evs, "notify") :
          /\ FirstEv(evs, "store") < i
          /\ \A j \in PosEv(evs, "callback") : j < i
          /\ evs[i].addr = "serialosc/device/add" /\ evs[i].args = <<id>>
     /\ h \in router'
     /\ Handles(find(devices_', id)) = {h}
     /\ h \in DOMAIN heap' /\ heap'[h].connected_

\* the device of the kind registered under the smallest identity is the one
\* added last
NewIsFirst ==
  LET h == NewHandle(heap)
  IN FirstOfKind(devices_', heap', getDeviceType(heap'[h])) = h

C32_RouterMatchesRegistry == router = Handles(devices_)

\* C33: taking the LED state of the device to be what the commands sent to
\* it have set, after any sequence of buffer writes, size reports and flushes
\* on a grid that ends with a flush while connected, the device's level of
\* every cell equals the buffer's level of that cell.
C33_FlushedDeviceShowsBuffer ==
  (lastOp.op = "flushLedBuffer" /\ heap[TheDevice].connected_) =>
    \A x \in 0..(kMaxWidth - 1), y \in 0..(kMaxHeight - 1) :
      ShownLevel(TheDevice, x, y) = Grid_getLevel(TheGrid, x, y)

\* C34: for grid quadrants and arc rings, after any sequence of setLevel,
\* fill, fillRect, fillRange, set, toggle, setPosition, setRange, clear and
\* clearDirty: whenever a region's dirty flag is clear, every cell of the
\* region equals the value it had at the last clearDirty (initially 0).
C34_CleanMeansUnchanged ==
  /\ IsGridUnderStudy =>
       \A q \in Quadrants :
         ~isQuadrantDirty(TheGrid, q[1], q[2]) =>
           ChangedCells(TheGrid, lastCleared[TheDevice], q) = {}
  /\ IsArcUnderStudy =>
       (~Ring_isDirty(TheRing) =>
          \A i \in 0..(kLedCount - 1) :
            Ring_getLevel(TheRing, i) = Level(lastCleared[TheDevice], i))

\* after a clearDirty that left lit cells in both quadrants, a write has
\* changed a cell of quadrant (0, 0) only: quadrant (1, 0) is clean and holds
\* the levels of the clearDirty
C34_Witness ==
  /\ IsGridUnderStudy
  /\ lastOp.op \in {"setLevel", "set", "toggle"}
  /\ isQuadrantDirty(TheGrid, 0, 0)
  /\ ~isQuadrantDirty(TheGrid, 1, 0)
  /\ Grid_getLevel(TheGrid, 9, 1) > 0
  /\ ChangedCells(TheGrid, lastCleared[TheDevice], <<0, 0>>) # {}

\* the callbacks among the events
Callbacks(evs) == SelectEv(evs, "callback")

\* C35, as stated: for each identity, over any sequence of add, remove, stop
\* and start, the device callbacks alternate beginning with (info, true):
\* no (info, true) follows an (info, true) without an (info, false) between
\* them, and no (info, false) comes without a preceding unmatched
\* (info, true).
C35_CallbacksAlternate ==
  [][\A i \in 1..Len(Callbacks(lastEvents')) :
       LET e == Callbacks(lastEvents')[i]
       IN IF e.args = <<TRUE>> THEN e.addr \notin cbOpen ELSE e.addr \in cbOpen]_vars

\* C35, amended: the (info, true) callback is invoked only by an add that
\* stores the device, once, and at most once between two teardowns of the
\* identity (a remove message for it or stop()); the (info, false) callback
\* only by a remove message for a registered identity, once; stop() and
\* start() invoke no callback, so after stop() a second (info, true) can
\* follow the first with no (info, false) between them.
C35_CallbacksPerTeardown ==
  [][LET cbs == Callbacks(lastEvents')
     IN /\ lastOp'.op \notin {"add", "remove"} => cbs = <<>>
        /\ lastOp'.op = "add" =>
             IF lastOp'.outcome = "added" /\ deviceCallback_
             THEN /\ Len(cbs) = 1
                  /\ cbs[1].addr = lastOp'.id /\ cbs[1].args = <<TRUE>>
                  /\ cbTrue[lastOp'.id] = 0
                  /\ lastOp'.id \notin Keys(devices_)
             ELSE cbs = <<>>
        /\ lastOp'.op = "remove" =>
             IF lastOp'.outcome = "removed" /\ deviceCallback_
             THEN /\ Len(cbs) = 1
                  /\ cbs[1].args = <<FALSE>>
                  /\ lastOp'.id \in Keys(devices_)
             ELSE cbs = <<>>]_vars

\* an identity whose last callback was (id, true) and which stop() has torn
\* down is added again with the callback set
C35_Witness ==
  /\ lastOp.op = "add"
  /\ lastOp.outcome = "added"
  /\ CountEv(lastEvents, "callback") = 1
  /\ cbTrue[lastOp.id] = 1
  /\ Cardinality(cbOpen) = 2
  /\ Cardinality(devices_) = 1

\* the local receive ports of the live devices are pairwise different,
\* different from the port of the service's open receiver and below the
\* running counter
PortsDistinct ==
  /\ \A h1 \in DOMAIN heap, h2 \in DOMAIN heap :
       h1 # h2 => heap[h1].localPort_ # heap[h2].localPort_
  /\ \A h \in DOMAIN heap :
       /\ receiver_ => heap[h].localPort_ # localPort_
       /\ heap[h].localPort_ < nextDevicePort_

\* C36: the local receive ports given to devices are pairwise different among
\* devices live at the same time and different from the service's own
\* discovery port; an allocation probes at most 100 consecutive ports from
\* the running counter, after a successful allocation the counter is one past
\* the allocated port, and a later allocation never returns a port at or
\* below an earlier one.
C36_DevicePorts ==
  /\ [](PortsDistinct)
  /\ [][/\ nextDevicePort_' >= nextDevicePort_
        /\ lastOp'.op = "add" =>
             IF lastOp'.outcome \in {"added", "connectfail"}
             THEN /\ lastOp'.scan = "found"
                  /\ (nextDevicePort_' - 1) \in Window(nextDevicePort_)
                  /\ lastOp'.outcome = "added" =>
                       /\ NewHandle(heap) \in DOMAIN heap'
                       /\ heap'[NewHandle(heap)].localPort_ = nextDevicePort_' - 1
                       /\ \A h \in DOMAIN heap :
                            heap[h].localPort_ < heap'[NewHandle(heap)].localPort_
             ELSE /\ nextDevicePort_' = nextDevicePort_
                  /\ DOMAIN heap' = DOMAIN heap]_vars

\* the service listens on the port the devices' counter starts at, and a
\* device has been added: its port is the next one
C36_Witness ==
  /\ lastOp.op = "add"
  /\ lastOp.outcome = "added"
  /\ receiver_
  /\ localPort_ = kFirstDevicePort
  /\ \E e \in devices_ : heap[e.h].localPort_ = kFirstDevicePort + 1

\* C37: in every reachable state each registry entry's key equals the
\* identity reported by the device stored under it (getId()), including after
\* the device pushes a /sys/id property message.
C37_KeyIsDeviceId == \A e \in devices_ : heap[e.h].info.id = e.key

\* C38: in every reachable state a grid LED buffer's width and height are
\* each at most 16, so every in-range cell has its own storage slot and
\* belongs to exactly one of the four quadrant dirty bits, including after
\* any /sys/size report received from the device.
C38_BufferWithinMax ==
  IsGridUnderStudy =>
    /\ TheGrid.width_ <= kMaxWidth
    /\ TheGrid.height_ <= kMaxHeight
    /\ \A c1 \in AllCells, c2 \in AllCells :
         c1 # c2 => GridIdx(c1[1], c1[2]) # GridIdx(c2[1], c2[2])
    /\ \A c \in AllCells : QuadrantOf(c) \in Quadrants

\* C39: in every reachable state the width and height a grid device reports
\* (getWidth(), getHeight()) equal the dimensions of its LED buffer, after
\* any sequence of /sys/size reports, including reports with a zero or
\* negative dimension.
C39_ReportedSizeIsBufferSize ==
  IsGridUnderStudy =>
    /\ Grid_getWidth(heap[TheDevice]) = TheGrid.width_
    /\ Grid_getHeight(heap[TheDevice]) = TheGrid.height_

StartFailures == {"noport", "receiverfail", "senderfail"}

\* C40: if start() cannot find a free local port in its scan window, or
\* cannot open its receive socket, or cannot open its send socket to the
\* daemon, it returns failure with the service not running, both daemon
\* sockets closed, no list or notify request sent and the registry unchanged.
C40_FailedStart ==
  [][lastOp'.op = "start" =>
       /\ lastOp'.outcome = "noport" <=> (~running_ /\ localPort_' = 0)
       /\ lastOp'.outcome = "started" =>
            /\ localPort_' \in Window(kServiceBasePort)
            /\ CountEv(lastEvents', "openReceiver") = 1
            /\ CountEv(lastEvents', "openSender") = 1
       /\ lastOp'.outcome \in StartFailures =>
            /\ ~running_' /\ ~subscribed_'
            /\ ~sender_' /\ ~receiver_'
            /\ CountEv(lastEvents', "send") = 0
            /\ CountEv(lastEvents', "openSender") = 0
            /\ CountEv(lastEvents', "openReceiver") = CountEv(lastEvents', "closeReceiver")
            /\ devices_' = devices_
            /\ heap' = heap
            /\ router' = router]_vars

\* after a run in which a device was given a port, start() has opened its
\* receiver and failed to open its sender
C40_Witness ==
  /\ lastOp.op = "start"
  /\ lastOp.outcome = "senderfail"
  /\ nextDevicePort_ > kFirstDevicePort
  /\ CountEv(lastEvents, "closeReceiver") = 1
====
